---- MODULE Spec2Model ----
(***************************************************************************)
(* The preference service of thunder (backend/internal/preference): the    *)
(* validation rules, the four service operations, the store's queries and  *)
(* the transaction the batch upsert runs in.                               *)
(***************************************************************************)
EXTENDS Integers, Sequences, FiniteSets, TLC

VARIABLES
    table,        \* USER_PREFERENCE: the committed rows
    now,          \* the database clock read by CURRENT_TIMESTAMP
    deleted,      \* history: the keys whose latest committed write is a delete
    written,      \* history: per key, the value its latest committed upsert wrote
    pc,           \* per caller: "idle", "tx" (inside Transact's closure), "done"
    call,         \* per caller: the service call in progress or last returned
    todo,         \* per caller: the pairs the closure's range loop has not visited
    txbuf,        \* per caller: the statements executed inside the open transaction
    updatedKeys,  \* per caller: the closure's updatedKeys slice
    res,          \* per caller: what the call returned
    probe,        \* per caller: what the call did to its collaborators
    vcase,        \* the (key, value) pair the validators are applied to
    http          \* the HTTP request in the handler and its response

vars == <<table, now, deleted, written, pc, call, todo, txbuf, updatedKeys, res, probe, vcase,
          http>>

----------------------------------------------------------------------------
(* Strings.  A Go string is kept run-length encoded: a sequence of runs    *)
(* [ch, n] (n >= 1, adjacent runs of different characters), so that a key  *)
(* of 256 bytes or a value of 10001 bytes is a small value.                *)

Run(c, n) == [ch |-> c, n |-> n]

\* strings.Repeat(c, n)
Repeat(c, n) == IF n = 0 THEN <<>> ELSE <<Run(c, n)>>

EmptyString == <<>>

\* The characters of the model: an ASCII letter, the ASCII space, a two-byte
\* letter (U+00E9) and a two-byte white space (U+00A0).
Chars == {"a", " ", "eacute", "nbsp"}

\* unicode.IsSpace, as strings.TrimSpace uses it
IsSpace(c) == c \in {" ", "nbsp"}

\* The bytes of a character's UTF-8 encoding
Width(c) == IF c \in {"eacute", "nbsp"} THEN 2 ELSE 1

\* The order of the characters' encodings
Code(c) == CASE c = " " -> 32 [] c = "a" -> 97 [] c = "nbsp" -> 160 [] OTHER -> 233

\* Go's len(s): the number of bytes
RECURSIVE GoLen(_)
GoLen(s) == IF s = <<>> THEN 0 ELSE Head(s).n * Width(Head(s).ch) + GoLen(Tail(s))

RECURSIVE TrimLeft(_)
TrimLeft(s) == IF s # <<>> /\ IsSpace(Head(s).ch) THEN TrimLeft(Tail(s)) ELSE s

RECURSIVE TrimRight(_)
TrimRight(s) ==
    IF s # <<>> /\ IsSpace(s[Len(s)].ch) THEN TrimRight(SubSeq(s, 1, Len(s) - 1)) ELSE s

\* strings.TrimSpace(s)
TrimSpace(s) == TrimRight(TrimLeft(s))

\* a < b in the byte order of the strings (ORDER BY PREFERENCE_KEY ASC)
RECURSIVE StrLess(_, _)
StrLess(a, b) ==
    IF b = <<>> THEN FALSE
    ELSE IF a = <<>> THEN TRUE
    ELSE LET x == Head(a)
             y == Head(b)
         IN  IF x.ch # y.ch THEN Code(x.ch) < Code(y.ch)
             ELSE IF x.n = y.n THEN StrLess(Tail(a), Tail(b))
             ELSE IF x.n < y.n
                  THEN StrLess(Tail(a), <<Run(y.ch, y.n - x.n)>> \o Tail(b))
                  ELSE StrLess(<<Run(x.ch, x.n - y.n)>> \o Tail(a), Tail(b))

----------------------------------------------------------------------------
(* Errors and validation (service.go, error_constants.go).                 *)

maxPreferenceKeyLength == 255
maxPreferenceValueLength == 10000

Nil == "nil"
ErrorPreferenceNotFound == "PREF-4001"
ErrorInvalidPreferenceKey == "PREF-4002"
ErrorInvalidPreferenceValue == "PREF-4003"
ErrorInternalServerError == "PREF-5000"

\* The store's errors: the sentinel, and any wrapped database error
ErrPreferenceNotFound == "preference not found"
ErrDatabase == "database error"

\* validatePreferenceKey comparing a key to "" without trimming it
validatePreferenceKeyNoTrim(key) ==
    IF key = EmptyString THEN ErrorInvalidPreferenceKey
    ELSE IF GoLen(key) > maxPreferenceKeyLength THEN ErrorInvalidPreferenceKey
    ELSE Nil

\* validatePreferenceKey with >= for >
validatePreferenceKeyOffByOne(key) ==
    IF TrimSpace(key) = EmptyString THEN ErrorInvalidPreferenceKey
    ELSE IF GoLen(key) >= maxPreferenceKeyLength THEN ErrorInvalidPreferenceKey
    ELSE Nil

validatePreferenceKey(key) ==
    IF TrimSpace(key) = EmptyString THEN ErrorInvalidPreferenceKey
    ELSE IF GoLen(key) > maxPreferenceKeyLength THEN ErrorInvalidPreferenceKey
    ELSE Nil

\* validatePreferenceValue with < for >
validatePreferenceValueInverted(value) ==
    IF GoLen(value) < maxPreferenceValueLength THEN ErrorInvalidPreferenceValue
    ELSE Nil

validatePreferenceValue(value) ==
    IF GoLen(value) > maxPreferenceValueLength THEN ErrorInvalidPreferenceValue
    ELSE Nil

\* The validation loop without its check of the value
PairErrorKeyOnly(key, value) == validatePreferenceKey(key)

\* One turn of UpsertPreferences' validation loop: the key first, then the value
PairError(key, value) ==
    IF validatePreferenceKey(key) # Nil THEN validatePreferenceKey(key)
    ELSE validatePreferenceValue(value)

\* The errors the validation loop can return for a batch: the error of the
\* first invalid pair the range over the map meets, in any iteration order.
\* Empty when every pair is valid.
ValidationErrors(prefs) ==
    {PairError(k, prefs[k]) : k \in {j \in DOMAIN prefs : PairError(j, prefs[j]) # Nil}}

----------------------------------------------------------------------------
(* The table and the four queries (store_constants.go).  A row is          *)
(* [user, dep, key, value, created, updated]; the table is a set of rows,  *)
(* so that a second row for one (user, dep, key) is a state the model can  *)
(* tell from an overwritten row.                                           *)

Row(u, d, k, v, c, m) ==
    [user |-> u, dep |-> d, key |-> k, value |-> v, created |-> c, updated |-> m]

\* The conflict target without the key: ON CONFLICT (USER_ID, DEPLOYMENT_ID)
ConflictsAnyKey(t, p1, p2, p4) == {r \in t : r.user = p1 /\ r.dep = p4}

\* The rows in conflict with (user, dep, key): ON CONFLICT (USER_ID, DEPLOYMENT_ID, PREFERENCE_KEY)
Conflicts(t, p1, p2, p4) == {r \in t : r.user = p1 /\ r.key = p2 /\ r.dep = p4}

\* SELECT ... WHERE USER_ID = $1 AND PREFERENCE_KEY = $2 AND DEPLOYMENT_ID = $3
queryGetPreferenceByKey(t, p1, p2, p3) ==
    {r \in t : r.user = p1 /\ r.key = p2 /\ r.dep = p3}

\* The rows of S as a sequence in ascending key order
RECURSIVE OrderByKey(_)
OrderByKey(S) ==
    IF S = {} THEN <<>>
    ELSE LET first == CHOOSE r \in S : \A q \in S : ~StrLess(q.key, r.key)
         IN  <<first>> \o OrderByKey(S \ {first})

\* The SELECT without its DEPLOYMENT_ID condition
queryGetPreferencesByUserIDAnyDeployment(t, p1, p2) ==
    OrderByKey({r \in t : r.user = p1})

\* The SELECT without its ORDER BY clause, the rows coming back latest key first
queryGetPreferencesByUserIDUnordered(t, p1, p2) ==
    LET rows == OrderByKey({r \in t : r.user = p1 /\ r.dep = p2})
    IN  [i \in 1..Len(rows) |-> rows[Len(rows) + 1 - i]]

\* SELECT ... WHERE USER_ID = $1 AND DEPLOYMENT_ID = $2 ORDER BY PREFERENCE_KEY ASC
queryGetPreferencesByUserID(t, p1, p2) ==
    OrderByKey({r \in t : r.user = p1 /\ r.dep = p2})

\* The INSERT without its ON CONFLICT clause, on a table without the unique index
queryInsertPreference(t, p1, p2, p3, p4, ts) == t \cup {Row(p1, p4, p2, p3, ts, ts)}

\* The upsert as a replacement of the row (INSERT OR REPLACE): both timestamps anew
queryReplacePreference(t, p1, p2, p3, p4, ts) ==
    (t \ Conflicts(t, p1, p2, p4)) \cup {Row(p1, p4, p2, p3, ts, ts)}

\* The upsert with ON CONFLICT ... DO NOTHING: the row that is there stays
queryUpsertDoNothing(t, p1, p2, p3, p4, ts) ==
    IF Conflicts(t, p1, p2, p4) = {} THEN t \cup {Row(p1, p4, p2, p3, ts, ts)} ELSE t

\* INSERT INTO USER_PREFERENCE (USER_ID, PREFERENCE_KEY, PREFERENCE_VALUE, DEPLOYMENT_ID)
\* VALUES ($1, $2, $3, $4) ON CONFLICT (USER_ID, DEPLOYMENT_ID, PREFERENCE_KEY)
\* DO UPDATE SET PREFERENCE_VALUE = EXCLUDED.PREFERENCE_VALUE, UPDATED_AT = CURRENT_TIMESTAMP
\* executed when CURRENT_TIMESTAMP reads ts.  The insert names neither timestamp
\* column: both take the column default, the time of the insert.
queryUpsertPreference(t, p1, p2, p3, p4, ts) ==
    IF Conflicts(t, p1, p2, p4) = {}
    THEN t \cup {Row(p1, p4, p2, p3, ts, ts)}
    ELSE (t \ Conflicts(t, p1, p2, p4))
         \cup {Row(r.user, r.dep, r.key, p3, r.created, ts) : r \in Conflicts(t, p1, p2, p4)}

\* The DELETE without its PREFERENCE_KEY condition
queryDeletePreferenceAllKeys(t, p1, p2, p3) ==
    t \ {r \in t : r.user = p1 /\ r.dep = p3}

\* The DELETE without its DEPLOYMENT_ID condition
queryDeletePreferenceAnyDeployment(t, p1, p2, p3) ==
    t \ {r \in t : r.user = p1 /\ r.key = p2}

\* DELETE FROM USER_PREFERENCE WHERE USER_ID = $1 AND PREFERENCE_KEY = $2 AND DEPLOYMENT_ID = $3
queryDeletePreference(t, p1, p2, p3) ==
    t \ {r \in t : r.user = p1 /\ r.key = p2 /\ r.dep = p3}

----------------------------------------------------------------------------
(* The store (store.go).                                                   *)

\* preferenceStore.deploymentID, set once by newPreferenceStore
deploymentID == "d1"

\* The column values a query hands back (interface{} values)
NilValue == [type |-> "nil"]
StringValue(s) == [type |-> "string", v |-> s]
TimeValue(n) == [type |-> "time", v |-> n]

\* A result row of the two SELECTs, by column name
ResultRow(r) ==
    [preference_key |-> StringValue(r.key), preference_value |-> StringValue(r.value),
     created_at |-> TimeValue(r.created), updated_at |-> TimeValue(r.updated)]

\* toString: "" for nil, the string itself, fmt.Sprintf("%v", val) otherwise
toString(val) ==
    IF val = NilValue THEN EmptyString
    ELSE IF val.type = "string" THEN val.v
    ELSE [sprintf |-> val.v]

\* The row read with the key's and the value's columns taken for one another
ToPreferenceSwapped(row) ==
    [Key |-> toString(row.preference_value),
     Value |-> toString(row.preference_key),
     CreatedAt |-> IF row.created_at # NilValue THEN toString(row.created_at) ELSE EmptyString,
     UpdatedAt |-> IF row.updated_at # NilValue THEN toString(row.updated_at) ELSE EmptyString]

\* The Preference a result row is turned into (store.go 76-89, 101-113)
ToPreference(row) ==
    [Key |-> toString(row.preference_key),
     Value |-> toString(row.preference_value),
     CreatedAt |-> IF row.created_at # NilValue THEN toString(row.created_at) ELSE EmptyString,
     UpdatedAt |-> IF row.updated_at # NilValue THEN toString(row.updated_at) ELSE EmptyString]

NoPreference == [isNil |-> TRUE]
Some(v) == [isNil |-> FALSE, v |-> v]

\* preferenceStore.GetPreferenceByKey: every (preference, error) the call can
\* return on table t; dbOk is whether QueryContext succeeds.  results[0] is any
\* of the matching rows.
StoreGetPreferenceByKey(t, userID, key, dbOk) ==
    IF ~dbOk THEN {[pref |-> NoPreference, err |-> ErrDatabase]}
    ELSE IF Cardinality(queryGetPreferenceByKey(t, userID, key, deploymentID)) = 0
         THEN {[pref |-> NoPreference, err |-> ErrPreferenceNotFound]}
         ELSE {[pref |-> Some(ToPreference(ResultRow(r))), err |-> Nil] :
                  r \in queryGetPreferenceByKey(t, userID, key, deploymentID)}

\* GetPreferencesByUserID declaring its slice without make: nil when no row matched
StoreGetPreferencesByUserIDNilSlice(t, userID, dbOk) ==
    IF ~dbOk THEN [prefs |-> NoPreference, err |-> ErrDatabase]
    ELSE LET results == queryGetPreferencesByUserID(t, userID, deploymentID)
         IN  [prefs |-> IF Len(results) = 0 THEN NoPreference
                        ELSE Some([i \in 1..Len(results) |-> ToPreference(ResultRow(results[i]))]),
              err |-> Nil]

\* preferenceStore.GetPreferencesByUserID
StoreGetPreferencesByUserID(t, userID, dbOk) ==
    IF ~dbOk THEN [prefs |-> NoPreference, err |-> ErrDatabase]
    ELSE LET results == queryGetPreferencesByUserID(t, userID, deploymentID)
         IN  [prefs |-> Some([i \in 1..Len(results) |-> ToPreference(ResultRow(results[i]))]),
              err |-> Nil]

\* The rows a DELETE of (userID, key) affects on table t
RowsAffected(t, userID, key) ==
    Cardinality(t) - Cardinality(queryDeletePreference(t, userID, key, deploymentID))

\* DeletePreference without its check of rowsAffected
StoreDeletePreferenceNoCount(t, userID, key, dbOk) == IF ~dbOk THEN ErrDatabase ELSE Nil

\* DeletePreference with its check of rowsAffected inverted
StoreDeletePreferenceInverted(t, userID, key, dbOk) ==
    IF ~dbOk THEN ErrDatabase
    ELSE IF RowsAffected(t, userID, key) # 0 THEN ErrPreferenceNotFound
    ELSE Nil

\* preferenceStore.DeletePreference: the error returned
StoreDeletePreference(t, userID, key, dbOk) ==
    IF ~dbOk THEN ErrDatabase
    ELSE IF RowsAffected(t, userID, key) = 0 THEN ErrPreferenceNotFound
    ELSE Nil

\* The statement preferenceStore.UpsertPreference executes
UpsertStatement(userID, key, value, ts) ==
    [userID |-> userID, key |-> key, value |-> value, dep |-> deploymentID, ts |-> ts]

\* The table after statement s
Execute(t, s) == queryUpsertPreference(t, s.userID, s.key, s.value, s.dep, s.ts)

----------------------------------------------------------------------------
(* The database client and the transactioner (internal/system/database),   *)
(* as the specification describes them: a statement executed on a context  *)
(* that carries a transaction joins it, any other is committed at once; a  *)
(* transaction's statements reach the table together when it commits and   *)
(* not at all when it is rolled back.                                      *)

\* Whether a statement executed on context ctx joins the open transaction
JoinsTransaction(ctx) == ctx = "txCtx"

\* Whether cancelling the caller's context cancels ctx: the transaction's
\* context is derived from the caller's, the background context from nothing
DerivedFromCaller(ctx) == ctx \in {"ctx", "txCtx"}

\* The table after the statements of a committed transaction, in the order executed
RECURSIVE Commit(_, _)
Commit(t, stmts) ==
    IF stmts = <<>> THEN t ELSE Commit(Execute(t, Head(stmts)), Tail(stmts))

----------------------------------------------------------------------------
(* The callers and the inputs.                                             *)

Procs == {"p1", "p2"}

\* The latest reading of the database clock the model follows
MaxClock == 1

\* User identifiers are Go strings, like the keys
Users == {Repeat("a", 1)}

ValidKeys == {Repeat("a", 1), Repeat("a", maxPreferenceKeyLength)}
InvalidKeys == {EmptyString, Repeat(" ", 2), Repeat("a", maxPreferenceKeyLength + 1)}
KeyInputs == ValidKeys \cup InvalidKeys

ValidValues == {EmptyString, Repeat("a", maxPreferenceValueLength)}
InvalidValues == {Repeat("a", maxPreferenceValueLength + 1)}
ValueInputs == ValidValues \cup InvalidValues

\* The maps over the valid keys with valid values, the empty map among them
ValidBatches == UNION {[S -> ValidValues] : S \in SUBSET ValidKeys}

\* Every map of at most two of the keys, valid or not, to the values, valid or not
BatchInputs ==
    UNION {[S -> ValueInputs] : S \in {T \in SUBSET KeyInputs : Cardinality(T) <= 2}}

\* Rows that are no caller's: another deployment's and another user's
ForeignRows ==
    {Row(Repeat("a", 1), "d2", Repeat("a", 1), Repeat("a", 1), 0, 0),
     Row(Repeat("a", 2), "d1", Repeat("a", 1), Repeat("a", 1), 0, 0)}

NoCall == [op |-> "none", userID |-> EmptyString, key |-> EmptyString, prefs |-> <<>>]
Call(op, userID, key, prefs) == [op |-> op, userID |-> userID, key |-> key, prefs |-> prefs]

NoResult == [err |-> "pending", val |-> NoPreference]
Result(err, val) == [err |-> err, val |-> val]

\* What a call did: store operations invoked, Transact calls made, statements
\* of it that reached the committed table, rows its query matched (-1: no
\* query ran), whether the key's latest committed write was a delete when it
\* ran, whether it read while another caller's transaction held statements or
\* committed while another caller's transaction was open, whether the database
\* failed it, whether its caller cancelled its context while it ran.
ZeroProbe ==
    [storeCalls |-> 0, transacts |-> 0, applied |-> 0, matched |-> -1,
     wasDeleted |-> FALSE, midTx |-> FALSE, dbErr |-> FALSE, cancelled |-> FALSE]

\* History: the latest committed upsert of (userID, key) is forgotten
Forget(w, userID, key) == {x \in w : ~(x.user = userID /\ x.key = key)}

\* History: the statements of a committed transaction, in the order executed
RECURSIVE Record(_, _)
Record(w, stmts) ==
    IF stmts = <<>> THEN w
    ELSE Record(Forget(w, Head(stmts).userID, Head(stmts).key)
                   \cup {[user |-> Head(stmts).userID, key |-> Head(stmts).key,
                          value |-> Head(stmts).value]},
                Tail(stmts))

\* Some caller's transaction holds statements that are not committed
OpenWrites == \E q \in Procs : pc[q] = "tx" /\ txbuf[q] # <<>>

\* No request is in the handler
NoRequest ==
    [state |-> "none", handler |-> "none", variant |-> 0, userID |-> EmptyString,
     key |-> EmptyString, body |-> [decodes |-> FALSE, isNil |-> TRUE, preferences |-> <<>>],
     status |-> 0, code |-> "none", service |-> FALSE]

NoCase == [key |-> EmptyString, value |-> EmptyString, keyErr |-> "none", valueErr |-> "none"]

Init ==
    /\ table = ForeignRows
    /\ now = 0
    /\ deleted = {}
    /\ written = {}
    /\ pc = [p \in Procs |-> "idle"]
    /\ call = [p \in Procs |-> NoCall]
    /\ todo = [p \in Procs |-> {}]
    /\ txbuf = [p \in Procs |-> <<>>]
    /\ updatedKeys = [p \in Procs |-> <<>>]
    /\ res = [p \in Procs |-> NoResult]
    /\ probe = [p \in Procs |-> ZeroProbe]
    /\ vcase = NoCase
    /\ http = NoRequest

\* A call returns r, having done pr
Return(p, r, pr) ==
    /\ pc' = [pc EXCEPT ![p] = "done"]
    /\ res' = [res EXCEPT ![p] = r]
    /\ probe' = [probe EXCEPT ![p] = pr]

----------------------------------------------------------------------------
(* The service (service.go).                                               *)

\* The service handing the store's error to its caller as it is
ServiceErrorVerbatim(err) == err

\* The service without its errors.Is branch
ServiceErrorInternal(err) == ErrorInternalServerError

\* The service error for a store error of the two single-key operations:
\* errors.Is(err, ErrPreferenceNotFound), InternalServerError otherwise
ServiceError(err) ==
    IF err = ErrPreferenceNotFound THEN ErrorPreferenceNotFound ELSE ErrorInternalServerError

\* preferenceService.GetPreferenceByKey
GetPreferenceByKey(p, userID, key, dbOk) ==
    /\ pc[p] = "idle"
    /\ call' = [call EXCEPT ![p] = Call("GetPreferenceByKey", userID, key, <<>>)]
    /\ IF validatePreferenceKey(key) # Nil
       THEN Return(p, Result(validatePreferenceKey(key), NoPreference), ZeroProbe)
       ELSE \E sr \in StoreGetPreferenceByKey(table, userID, key, dbOk) :
               Return(p,
                      IF sr.err # Nil THEN Result(ServiceError(sr.err), NoPreference)
                      ELSE Result(Nil, sr.pref),
                      [ZeroProbe EXCEPT
                          !.storeCalls = 1,
                          !.matched = IF dbOk
                                      THEN Cardinality(queryGetPreferenceByKey(
                                               table, userID, key, deploymentID))
                                      ELSE -1,
                          !.wasDeleted = <<userID, key>> \in deleted,
                          !.midTx = OpenWrites,
                          !.dbErr = ~dbOk])
    /\ UNCHANGED <<table, now, deleted, written, todo, txbuf, updatedKeys, vcase, http>>

\* preferenceService.GetPreferencesByUserID
GetPreferencesByUserID(p, userID, dbOk) ==
    /\ pc[p] = "idle"
    /\ call' = [call EXCEPT ![p] = Call("GetPreferencesByUserID", userID, EmptyString, <<>>)]
    /\ LET sr == StoreGetPreferencesByUserID(table, userID, dbOk)
       IN  Return(p,
                  IF sr.err # Nil THEN Result(ErrorInternalServerError, NoPreference)
                  ELSE Result(Nil, sr.prefs),
                  [ZeroProbe EXCEPT !.storeCalls = 1, !.midTx = OpenWrites, !.dbErr = ~dbOk])
    /\ UNCHANGED <<table, now, deleted, written, todo, txbuf, updatedKeys, vcase, http>>

\* preferenceService.DeletePreference.  The store's DELETE runs on the caller's
\* context, outside any transaction: its effect is committed at once.
DeletePreference(p, userID, key, dbOk) ==
    /\ pc[p] = "idle"
    /\ call' = [call EXCEPT ![p] = Call("DeletePreference", userID, key, <<>>)]
    /\ IF validatePreferenceKey(key) # Nil
       THEN /\ Return(p, Result(validatePreferenceKey(key), NoPreference), ZeroProbe)
            /\ UNCHANGED <<table, deleted, written>>
       ELSE LET err == StoreDeletePreference(table, userID, key, dbOk)
            IN  /\ table' = IF dbOk
                            THEN queryDeletePreference(table, userID, key, deploymentID)
                            ELSE table
                /\ deleted' = IF dbOk /\ RowsAffected(table, userID, key) > 0
                              THEN deleted \cup {<<userID, key>>}
                              ELSE deleted
                /\ written' = IF dbOk THEN Forget(written, userID, key) ELSE written
                /\ Return(p,
                          IF err # Nil THEN Result(ServiceError(err), NoPreference)
                          ELSE Result(Nil, NoPreference),
                          [ZeroProbe EXCEPT
                              !.storeCalls = 1,
                              !.matched = IF dbOk THEN RowsAffected(table, userID, key) ELSE -1,
                              !.wasDeleted = <<userID, key>> \in deleted,
                              !.dbErr = ~dbOk])
    /\ UNCHANGED <<now, todo, txbuf, updatedKeys, vcase, http>>

\* The closure appending to updatedKeys before the store call and again after it
AppendKeyTwice(keys, key) == Append(Append(keys, key), key)

\* updatedKeys = append(updatedKeys, key) (service.go 114)
AppendKey(keys, key) == Append(keys, key)

\* The closure handing the caller's context, not the transaction's, to the store
UpsertContextOuter == "ctx"

\* The closure handing a context of its own making to the store
UpsertContextBackground == "background"

\* The context UpsertPreferences hands to Transact: its caller's (service.go 109)
TransactContext == "ctx"

\* The caller of p's call has cancelled its context, and ctx with it: a
\* statement executed on ctx fails, and so does the commit of a transaction
\* begun on it
Aborted(p, ctx) == probe[p].cancelled /\ DerivedFromCaller(ctx)

\* The context the closure hands to store.UpsertPreference (service.go 111)
UpsertContext == "txCtx"

\* What UpsertPreferences returns when Transact returns an error (service.go 119-122)
UpsertFailed(p) == Result(ErrorInternalServerError, NoPreference)

\* preferenceService.UpsertPreferences, up to the entry into Transact's closure:
\* the validation loop, then Transact; beginOk is whether the transactioner
\* starts the transaction and runs the closure.
UpsertPreferences(p, userID, prefs, beginOk) ==
    /\ pc[p] = "idle"
    /\ call' = [call EXCEPT ![p] = Call("UpsertPreferences", userID, EmptyString, prefs)]
    /\ IF ValidationErrors(prefs) # {}
       THEN /\ \E e \in ValidationErrors(prefs) : Return(p, Result(e, NoPreference), ZeroProbe)
            /\ UNCHANGED <<todo, txbuf, updatedKeys>>
       ELSE IF ~beginOk
       THEN /\ Return(p, UpsertFailed(p), [ZeroProbe EXCEPT !.transacts = 1, !.dbErr = TRUE])
            /\ UNCHANGED <<todo, txbuf, updatedKeys>>
       ELSE /\ pc' = [pc EXCEPT ![p] = "tx"]
            /\ res' = [res EXCEPT ![p] = NoResult]
            /\ probe' = [probe EXCEPT ![p] = [ZeroProbe EXCEPT !.transacts = 1]]
            /\ todo' = [todo EXCEPT ![p] = DOMAIN prefs]
            /\ txbuf' = [txbuf EXCEPT ![p] = <<>>]
            /\ updatedKeys' = [updatedKeys EXCEPT ![p] = <<>>]
    /\ UNCHANGED <<table, now, deleted, written, vcase, http>>

\* The loop with a transaction of its own around each store.UpsertPreference:
\* every pair is committed as it is written
UpsertWriteEachCommitted(p, key, dbOk) ==
    /\ pc[p] = "tx"
    /\ key \in todo[p]
    /\ LET s == UpsertStatement(call[p].userID, key, call[p].prefs[key], now)
       IN  IF dbOk
           THEN /\ table' = Commit(table, <<s>>)
                /\ deleted' = deleted \ {<<s.userID, s.key>>}
                /\ written' = Record(written, <<s>>)
                /\ probe' = [probe EXCEPT ![p].storeCalls = @ + 1, ![p].applied = @ + 1]
                /\ updatedKeys' = [updatedKeys EXCEPT ![p] = AppendKey(@, key)]
                /\ todo' = [todo EXCEPT ![p] = @ \ {key}]
                /\ UNCHANGED <<pc, res, txbuf>>
           ELSE /\ Return(p, UpsertFailed(p),
                          [probe[p] EXCEPT !.storeCalls = @ + 1, !.dbErr = TRUE])
                /\ updatedKeys' = [updatedKeys EXCEPT ![p] = <<>>]
                /\ todo' = [todo EXCEPT ![p] = {}]
                /\ UNCHANGED <<table, deleted, written, txbuf>>
    /\ UNCHANGED <<now, call, vcase, http>>

\* store.UpsertPreference beginning a transaction of its own inside the closure's
UpsertWriteOwnTransaction(p, key, dbOk) ==
    /\ pc[p] = "tx"
    /\ key \in todo[p]
    /\ LET s == UpsertStatement(call[p].userID, key, call[p].prefs[key], now)
       IN  IF dbOk
           THEN /\ txbuf' = [txbuf EXCEPT ![p] = Append(@, s)]
                /\ probe' = [probe EXCEPT ![p].storeCalls = @ + 1, ![p].transacts = @ + 1]
                /\ updatedKeys' = [updatedKeys EXCEPT ![p] = AppendKey(@, key)]
                /\ todo' = [todo EXCEPT ![p] = @ \ {key}]
                /\ UNCHANGED <<pc, res>>
           ELSE /\ Return(p, UpsertFailed(p),
                          [probe[p] EXCEPT !.storeCalls = @ + 1, !.dbErr = TRUE])
                /\ txbuf' = [txbuf EXCEPT ![p] = <<>>]
                /\ updatedKeys' = [updatedKeys EXCEPT ![p] = <<>>]
                /\ todo' = [todo EXCEPT ![p] = {}]
    /\ UNCHANGED <<table, now, deleted, written, call, vcase, http>>

\* The closure's loop trying a failed store.UpsertPreference again
UpsertWriteRetry(p, key, dbOk) ==
    /\ pc[p] = "tx"
    /\ key \in todo[p]
    /\ LET s == UpsertStatement(call[p].userID, key, call[p].prefs[key], now)
       IN  IF dbOk
           THEN /\ txbuf' = [txbuf EXCEPT ![p] = Append(@, s)]
                /\ probe' = [probe EXCEPT ![p].storeCalls = @ + 1]
                /\ updatedKeys' = [updatedKeys EXCEPT ![p] = AppendKey(@, key)]
                /\ todo' = [todo EXCEPT ![p] = @ \ {key}]
                /\ UNCHANGED <<pc, res>>
           ELSE /\ probe[p].storeCalls < 3
                /\ probe' = [probe EXCEPT ![p].storeCalls = @ + 1]
                /\ UNCHANGED <<pc, res, txbuf, updatedKeys, todo>>
    /\ UNCHANGED <<table, now, deleted, written, call, vcase, http>>

\* The closure's loop taking a lock of the service's for each key, held until
\* the call returns: a turn waits while another call holds the key's lock
UpsertWriteLocking(p, key, dbOk) ==
    /\ pc[p] = "tx"
    /\ key \in todo[p]
    /\ \A q \in Procs \ {p} : pc[q] = "tx" => key \notin DOMAIN call[q].prefs \ todo[q]
    /\ LET s == UpsertStatement(call[p].userID, key, call[p].prefs[key], now)
       IN  IF dbOk
           THEN /\ txbuf' = [txbuf EXCEPT ![p] = Append(@, s)]
                /\ probe' = [probe EXCEPT ![p].storeCalls = @ + 1]
                /\ updatedKeys' = [updatedKeys EXCEPT ![p] = AppendKey(@, key)]
                /\ todo' = [todo EXCEPT ![p] = @ \ {key}]
                /\ UNCHANGED <<pc, res>>
           ELSE /\ Return(p, UpsertFailed(p),
                          [probe[p] EXCEPT !.storeCalls = @ + 1, !.dbErr = TRUE])
                /\ txbuf' = [txbuf EXCEPT ![p] = <<>>]
                /\ updatedKeys' = [updatedKeys EXCEPT ![p] = <<>>]
                /\ todo' = [todo EXCEPT ![p] = {}]
    /\ UNCHANGED <<table, now, deleted, written, call, vcase, http>>

\* One turn of the closure's loop: store.UpsertPreference for a pair the range
\* has not visited yet, in any order.  With the transaction's context the
\* statement joins the transaction; with the caller's it is committed at once.
\* A failed statement makes the closure return the error: Transact rolls the
\* transaction back and UpsertPreferences returns InternalServerError.
UpsertWrite(p, key, dbOk) ==
    /\ pc[p] = "tx"
    /\ key \in todo[p]
    /\ Aborted(p, UpsertContext) => ~dbOk
    /\ LET s == UpsertStatement(call[p].userID, key, call[p].prefs[key], now)
           inTx == JoinsTransaction(UpsertContext)
       IN  IF dbOk
           THEN /\ txbuf' = [txbuf EXCEPT ![p] = IF inTx THEN Append(@, s) ELSE @]
                /\ table' = IF inTx THEN table ELSE Execute(table, s)
                /\ deleted' = IF inTx THEN deleted ELSE deleted \ {<<s.userID, s.key>>}
                /\ written' = IF inTx THEN written ELSE Record(written, <<s>>)
                /\ probe' = [probe EXCEPT ![p].storeCalls = @ + 1,
                                          ![p].applied = IF inTx THEN @ ELSE @ + 1]
                /\ updatedKeys' = [updatedKeys EXCEPT ![p] = AppendKey(@, key)]
                /\ todo' = [todo EXCEPT ![p] = @ \ {key}]
                /\ UNCHANGED <<pc, res>>
           ELSE /\ Return(p, UpsertFailed(p),
                          [probe[p] EXCEPT !.storeCalls = @ + 1, !.dbErr = TRUE])
                /\ txbuf' = [txbuf EXCEPT ![p] = <<>>]
                /\ updatedKeys' = [updatedKeys EXCEPT ![p] = <<>>]
                /\ todo' = [todo EXCEPT ![p] = {}]
                /\ UNCHANGED <<table, deleted, written>>
    /\ UNCHANGED <<now, call, vcase, http>>

\* The closure returns nil: Transact commits (every statement of the transaction
\* reaches the table in one step) and UpsertPreferences returns updatedKeys; or
\* the commit fails, nothing reaches the table and it returns InternalServerError.
UpsertCommit(p, commitOk) ==
    /\ pc[p] = "tx"
    /\ todo[p] = {}
    /\ Aborted(p, TransactContext) => ~commitOk
    /\ IF commitOk
       THEN /\ table' = Commit(table, txbuf[p])
            /\ deleted' = deleted \ {<<txbuf[p][i].userID, txbuf[p][i].key>> : i \in 1..Len(txbuf[p])}
            /\ written' = Record(written, txbuf[p])
            /\ Return(p, Result(Nil, Some(updatedKeys[p])),
                      [probe[p] EXCEPT !.applied = @ + Len(txbuf[p]),
                                       !.midTx = \E q \in Procs \ {p} :
                                                   pc[q] = "tx" /\ txbuf[q] # <<>>])
       ELSE /\ Return(p, UpsertFailed(p), [probe[p] EXCEPT !.dbErr = TRUE])
            /\ UNCHANGED <<table, deleted, written>>
    /\ txbuf' = [txbuf EXCEPT ![p] = <<>>]
    /\ updatedKeys' = [updatedKeys EXCEPT ![p] = <<>>]
    /\ UNCHANGED <<now, call, todo, vcase, http>>

\* The caller of p's UpsertPreferences cancels its context while the
\* transaction is open
Cancel(p) ==
    /\ pc[p] = "tx"
    /\ ~probe[p].cancelled
    /\ probe' = [probe EXCEPT ![p].cancelled = TRUE]
    /\ UNCHANGED <<table, now, deleted, written, pc, call, todo, txbuf, updatedKeys, res, vcase,
                   http>>

\* The caller has its answer and is ready for its next request
Finish(p) ==
    /\ pc[p] = "done"
    /\ pc' = [pc EXCEPT ![p] = "idle"]
    /\ call' = [call EXCEPT ![p] = NoCall]
    /\ res' = [res EXCEPT ![p] = NoResult]
    /\ probe' = [probe EXCEPT ![p] = ZeroProbe]
    /\ UNCHANGED <<table, now, deleted, written, todo, txbuf, updatedKeys, vcase, http>>

\* The database clock advances
Tick ==
    /\ now < MaxClock
    /\ now' = now + 1
    /\ UNCHANGED <<table, deleted, written, pc, call, todo, txbuf, updatedKeys, res, probe, vcase, http>>

----------------------------------------------------------------------------
(* Specifications.                                                         *)

\* Two callers at once, valid inputs, the clock standing still
Next ==
    \/ \E p \in Procs, u \in Users, k \in ValidKeys, ok \in BOOLEAN :
          GetPreferenceByKey(p, u, k, ok)
    \/ \E p \in Procs, u \in Users, ok \in BOOLEAN : GetPreferencesByUserID(p, u, ok)
    \/ \E p \in Procs, u \in Users, k \in ValidKeys, ok \in BOOLEAN :
          DeletePreference(p, u, k, ok)
    \/ \E p \in Procs, u \in Users, b \in ValidBatches, ok \in BOOLEAN :
          UpsertPreferences(p, u, b, ok)
    \/ \E p \in Procs, k \in ValidKeys, ok \in BOOLEAN : UpsertWrite(p, k, ok)
    \/ \E p \in Procs, ok \in BOOLEAN : UpsertCommit(p, ok)
    \/ \E p \in Procs : Finish(p)

Spec == Init /\ [][Next]_vars

\* One caller, every input, the clock running
SeqNext ==
    \/ \E u \in Users, k \in KeyInputs, ok \in BOOLEAN : GetPreferenceByKey("p1", u, k, ok)
    \/ \E u \in Users, ok \in BOOLEAN : GetPreferencesByUserID("p1", u, ok)
    \/ \E u \in Users, k \in KeyInputs, ok \in BOOLEAN : DeletePreference("p1", u, k, ok)
    \/ \E u \in Users, b \in BatchInputs, ok \in BOOLEAN : UpsertPreferences("p1", u, b, ok)
    \/ \E k \in ValidKeys, ok \in BOOLEAN : UpsertWrite("p1", k, ok)
    \/ \E ok \in BOOLEAN : UpsertCommit("p1", ok)
    \/ Finish("p1")
    \/ Tick

SpecSeq == Init /\ [][SeqNext]_vars

----------------------------------------------------------------------------
(* The HTTP handlers (handler.go).  The repository holds two variants of   *)
(* the handler: 1 answers with the API error constants and converts a      *)
(* service error with handleServiceError, 2 answers with service errors    *)
(* and derives the status from the error's type and code.                  *)

ErrorAuthenticationFailed == "PREF-4000"
ErrorInvalidRequest == "PREF-4004"

\* The API error constants of variant 1
ErrorAuthenticationFailedAPI == [Code |-> "PREF-4000", Status |-> 401]
ErrorPreferenceNotFoundAPI == [Code |-> "PREF-4001", Status |-> 404]
ErrorInvalidRequestAPI == [Code |-> "PREF-4002", Status |-> 400]
ErrorInternalServerErrorAPI == [Code |-> "PREF-5000", Status |-> 500]

\* The conversion without its first case
handleServiceErrorNoNotFound(code) ==
    IF code \in {ErrorInvalidPreferenceKey, ErrorInvalidPreferenceValue}
    THEN ErrorInvalidRequestAPI
    ELSE ErrorInternalServerErrorAPI

\* Variant 1: handleServiceError, the switch on svcErr.Code
handleServiceError(code) ==
    IF code = ErrorPreferenceNotFound THEN ErrorPreferenceNotFoundAPI
    ELSE IF code \in {ErrorInvalidPreferenceKey, ErrorInvalidPreferenceValue}
    THEN ErrorInvalidRequestAPI
    ELSE ErrorInternalServerErrorAPI

\* The Type of a service error: every one is a client error but InternalServerError
ErrorType(code) ==
    IF code = ErrorInternalServerError THEN "ServerErrorType" ELSE "ClientErrorType"

\* Variant 2: handleError, the status from svcErr.Type and svcErr.Code
handleError(code) ==
    [Code |-> code,
     Status |-> IF ErrorType(code) = "ClientErrorType"
                THEN IF code = ErrorPreferenceNotFound THEN 404
                     ELSE IF code = ErrorAuthenticationFailed THEN 401
                     ELSE 400
                ELSE 500]

\* What the handler of variant v writes for a request without a user
AuthenticationFailedResponse(v) ==
    IF v = 1 THEN ErrorAuthenticationFailedAPI ELSE handleError(ErrorAuthenticationFailed)

\* What the handler of variant v writes for a request it cannot use
InvalidRequestResponse(v) ==
    IF v = 1 THEN ErrorInvalidRequestAPI ELSE handleError(ErrorInvalidRequest)

\* What the handler of variant v writes for the service error svcErr
ServiceErrorResponse(v, svcErr) ==
    IF v = 1 THEN handleServiceError(svcErr) ELSE handleError(svcErr)

\* The check of the user identifier comparing it with "" as it came
UnauthenticatedNoTrim(userID) == userID = EmptyString

\* strings.TrimSpace(userID) == "", userID being what security.GetUserID
\* returned: "" when the context holds no user
Unauthenticated(userID) == TrimSpace(userID) = EmptyString

\* strings.TrimSpace(key) == "", key being the path after the prefix
BlankKey(key) == TrimSpace(key) = EmptyString

\* The check of the decoded request for a nil map only
NoPreferencesNilOnly(req) == req.isNil

\* req.Preferences == nil || len(req.Preferences) == 0
NoPreferences(req) == req.isNil \/ Cardinality(DOMAIN req.preferences) = 0

\* A request body: whether json.Decode accepts it, whether it leaves
\* req.Preferences nil (no "preferences" member), and the map it holds
Body(decodes, isNil, preferences) ==
    [decodes |-> decodes, isNil |-> isNil, preferences |-> preferences]

NoBody == Body(FALSE, TRUE, <<>>)

\* The goroutine serving the request
Handler == "p1"

HttpVariants == {1, 2}

\* What security.GetUserID can return: nothing, white space, a user
HttpUserIDs == {EmptyString, Repeat(" ", 1), Repeat("nbsp", 2), Repeat("a", 1)}

\* The path after "/users/me/preferences/"
HttpKeys ==
    {EmptyString, Repeat(" ", 1), Repeat("nbsp", 1), Repeat("a", 1),
     Repeat("a", maxPreferenceKeyLength + 1)}

\* Bodies: one that is no JSON, one without the map, one with an empty map,
\* and maps of one pair, valid or not
HttpBodies ==
    {NoBody, Body(TRUE, TRUE, <<>>), Body(TRUE, FALSE, <<>>)}
    \cup {Body(TRUE, FALSE, [k \in {key} |-> value]) :
             key \in {Repeat("a", 1), EmptyString}, value \in ValueInputs}

\* The handler answers without having called the service
Rejected(handler, v, userID, key, body, response) ==
    [state |-> "responded", handler |-> handler, variant |-> v, userID |-> userID,
     key |-> key, body |-> body, status |-> response.Status, code |-> response.Code,
     service |-> FALSE]

\* The handler is about to call the service
Forwarded(handler, v, userID, key, body) ==
    [state |-> "forwarded", handler |-> handler, variant |-> v, userID |-> userID,
     key |-> key, body |-> body, status |-> 0, code |-> "none", service |-> FALSE]

\* A request enters a handler, which answers it or goes on to the service
Receive(request) ==
    /\ http.state = "none"
    /\ pc[Handler] = "idle"
    /\ http' = request
    /\ UNCHANGED <<table, now, deleted, written, pc, call, todo, txbuf, updatedKeys, res, probe,
                   vcase>>

\* preferenceHandler.handleGetPreferences, up to the service call
handleGetPreferences(v, userID) ==
    Receive(IF Unauthenticated(userID)
            THEN Rejected("handleGetPreferences", v, userID, EmptyString, NoBody,
                          AuthenticationFailedResponse(v))
            ELSE Forwarded("handleGetPreferences", v, userID, EmptyString, NoBody))

\* preferenceHandler.handleGetPreferenceByKey, up to the service call
handleGetPreferenceByKey(v, userID, key) ==
    Receive(IF Unauthenticated(userID)
            THEN Rejected("handleGetPreferenceByKey", v, userID, key, NoBody,
                          AuthenticationFailedResponse(v))
            ELSE IF BlankKey(key)
            THEN Rejected("handleGetPreferenceByKey", v, userID, key, NoBody,
                          InvalidRequestResponse(v))
            ELSE Forwarded("handleGetPreferenceByKey", v, userID, key, NoBody))

\* preferenceHandler.handleUpsertPreferences, up to the service call
handleUpsertPreferences(v, userID, body) ==
    Receive(IF Unauthenticated(userID)
            THEN Rejected("handleUpsertPreferences", v, userID, EmptyString, body,
                          AuthenticationFailedResponse(v))
            ELSE IF ~body.decodes
            THEN Rejected("handleUpsertPreferences", v, userID, EmptyString, body,
                          InvalidRequestResponse(v))
            ELSE IF NoPreferences(body)
            THEN Rejected("handleUpsertPreferences", v, userID, EmptyString, body,
                          InvalidRequestResponse(v))
            ELSE Forwarded("handleUpsertPreferences", v, userID, EmptyString, body))

\* preferenceHandler.handleDeletePreference, up to the service call
handleDeletePreference(v, userID, key) ==
    Receive(IF Unauthenticated(userID)
            THEN Rejected("handleDeletePreference", v, userID, key, NoBody,
                          AuthenticationFailedResponse(v))
            ELSE IF BlankKey(key)
            THEN Rejected("handleDeletePreference", v, userID, key, NoBody,
                          InvalidRequestResponse(v))
            ELSE Forwarded("handleDeletePreference", v, userID, key, NoBody))

\* The handler h has reached its call of the service
Calls(h) == http.state = "forwarded" /\ http.handler = h

\* The service has returned: the handler writes 200, or the error's response
WriteResponse ==
    /\ http.state = "forwarded"
    /\ pc[Handler] = "done"
    /\ LET svcErr == res[Handler].err
           response == IF svcErr = Nil THEN [Code |-> "none", Status |-> 200]
                       ELSE ServiceErrorResponse(http.variant, svcErr)
       IN  http' = [http EXCEPT !.state = "responded", !.status = response.Status,
                                !.code = response.Code, !.service = TRUE]
    /\ UNCHANGED <<table, now, deleted, written, pc, call, todo, txbuf, updatedKeys, res, probe,
                   vcase>>

\* The handler returns
HandlerReturn ==
    /\ http.state = "responded"
    /\ pc[Handler] = "idle"
    /\ http' = NoRequest
    /\ UNCHANGED <<table, now, deleted, written, pc, call, todo, txbuf, updatedKeys, res, probe,
                   vcase>>

\* One request at a time through the handlers of either variant, the clock
\* standing still
HttpNext ==
    \/ \E v \in HttpVariants, u \in HttpUserIDs : handleGetPreferences(v, u)
    \/ \E v \in HttpVariants, u \in HttpUserIDs, k \in HttpKeys :
          handleGetPreferenceByKey(v, u, k)
    \/ \E v \in HttpVariants, u \in HttpUserIDs, b \in HttpBodies :
          handleUpsertPreferences(v, u, b)
    \/ \E v \in HttpVariants, u \in HttpUserIDs, k \in HttpKeys :
          handleDeletePreference(v, u, k)
    \/ \E ok \in BOOLEAN :
          Calls("handleGetPreferences") /\ GetPreferencesByUserID(Handler, http.userID, ok)
    \/ \E ok \in BOOLEAN :
          Calls("handleGetPreferenceByKey")
          /\ GetPreferenceByKey(Handler, http.userID, http.key, ok)
    \/ \E ok \in BOOLEAN :
          Calls("handleUpsertPreferences")
          /\ UpsertPreferences(Handler, http.userID, http.body.preferences, ok)
    \/ \E ok \in BOOLEAN :
          Calls("handleDeletePreference")
          /\ DeletePreference(Handler, http.userID, http.key, ok)
    \/ \E k \in ValidKeys, ok \in BOOLEAN : UpsertWrite(Handler, k, ok)
    \/ \E ok \in BOOLEAN : UpsertCommit(Handler, ok)
    \/ WriteResponse
    \/ http.state = "responded" /\ Finish(Handler)
    \/ HandlerReturn

SpecHttp == Init /\ [][HttpNext]_vars

----------------------------------------------------------------------------

(* One caller working for either of two users, the clock standing still.   *)

ScopeUsers == {Repeat("a", 1), Repeat("a", 2)}

ScopeNext ==
    \/ \E u \in ScopeUsers, k \in ValidKeys, ok \in BOOLEAN : GetPreferenceByKey("p1", u, k, ok)
    \/ \E u \in ScopeUsers, ok \in BOOLEAN : GetPreferencesByUserID("p1", u, ok)
    \/ \E u \in ScopeUsers, k \in ValidKeys, ok \in BOOLEAN : DeletePreference("p1", u, k, ok)
    \/ \E u \in ScopeUsers, b \in ValidBatches, ok \in BOOLEAN : UpsertPreferences("p1", u, b, ok)
    \/ \E k \in ValidKeys, ok \in BOOLEAN : UpsertWrite("p1", k, ok)
    \/ \E ok \in BOOLEAN : UpsertCommit("p1", ok)
    \/ Finish("p1")

SpecScope == Init /\ [][ScopeNext]_vars

----------------------------------------------------------------------------

(* Two callers at once whose contexts can be cancelled, over two batches   *)
(* of the same two keys and two batches of invalid pairs.  A call that is  *)
(* in its transaction goes on: its goroutine runs, and each store or       *)
(* transaction call it makes returns.                                      *)

\* An invalid key with a valid value, and a valid key with a value too long
MixedBatch ==
    [k \in {EmptyString, Repeat("a", 1)} |->
        IF k = EmptyString THEN EmptyString ELSE Repeat("a", maxPreferenceValueLength + 1)]

\* Two valid keys with the same value too long
LongBatch == [k \in ValidKeys |-> Repeat("a", maxPreferenceValueLength + 1)]

LiveBatches == {[k \in ValidKeys |-> v] : v \in ValidValues} \cup {MixedBatch, LongBatch}

LiveNext ==
    \/ \E p \in Procs, u \in Users, ok \in BOOLEAN :
          GetPreferenceByKey(p, u, Repeat("a", 1), ok)
    \/ \E p \in Procs, u \in Users, ok \in BOOLEAN : GetPreferencesByUserID(p, u, ok)
    \/ \E p \in Procs, u \in Users, ok \in BOOLEAN :
          DeletePreference(p, u, Repeat("a", 1), ok)
    \/ \E p \in Procs, u \in Users, b \in LiveBatches, ok \in BOOLEAN :
          UpsertPreferences(p, u, b, ok)
    \/ \E p \in Procs, k \in ValidKeys, ok \in BOOLEAN : UpsertWrite(p, k, ok)
    \/ \E p \in Procs, ok \in BOOLEAN : UpsertCommit(p, ok)
    \/ \E p \in Procs : Cancel(p)
    \/ \E p \in Procs : Finish(p)

SpecLive ==
    /\ Init
    /\ [][LiveNext]_vars
    /\ \A p \in Procs :
          /\ WF_vars(\E k \in ValidKeys, ok \in BOOLEAN : UpsertWrite(p, k, ok))
          /\ WF_vars(\E ok \in BOOLEAN : UpsertCommit(p, ok))

----------------------------------------------------------------------------

(* The two validators on their own, over keys and values around the limits.*)

KeyLens ==
    {0, 1, 2, maxPreferenceKeyLength \div 2, (maxPreferenceKeyLength \div 2) + 1,
     maxPreferenceKeyLength - 1, maxPreferenceKeyLength, maxPreferenceKeyLength + 1,
     maxPreferenceKeyLength + 2}

ValueLens ==
    {0, 1, maxPreferenceValueLength \div 2, (maxPreferenceValueLength \div 2) + 1,
     maxPreferenceValueLength - 1, maxPreferenceValueLength, maxPreferenceValueLength + 1}

Letters == {c \in Chars : ~IsSpace(c)}
Spaces == {c \in Chars : IsSpace(c)}

\* Runs of one character, and a run of letters after, before or between white space
KeyCases ==
    {Repeat(c, n) : c \in Chars, n \in KeyLens}
    \cup {Repeat(w, 1) \o Repeat(c, n) : w \in Spaces, c \in Letters, n \in KeyLens \ {0}}
    \cup {Repeat(c, n) \o Repeat(w, 1) : w \in Spaces, c \in Letters, n \in KeyLens \ {0}}
    \cup {Repeat(w, 1) \o Repeat(c, n) \o Repeat(w, 1) :
             w \in Spaces, c \in Letters, n \in KeyLens \ {0}}

ValueCases == {Repeat(c, n) : c \in Chars, n \in ValueLens}

ValidateInit ==
    /\ table = ForeignRows
    /\ now = 0
    /\ deleted = {}
    /\ written = {}
    /\ pc = [p \in Procs |-> "idle"]
    /\ call = [p \in Procs |-> NoCall]
    /\ todo = [p \in Procs |-> {}]
    /\ txbuf = [p \in Procs |-> <<>>]
    /\ updatedKeys = [p \in Procs |-> <<>>]
    /\ res = [p \in Procs |-> NoResult]
    /\ probe = [p \in Procs |-> ZeroProbe]
    /\ vcase \in {[key |-> k, value |-> v, keyErr |-> "none", valueErr |-> "none"] :
                     k \in KeyCases, v \in ValueCases}
    /\ http = NoRequest

ValidateKey ==
    /\ vcase.keyErr = "none"
    /\ vcase' = [vcase EXCEPT !.keyErr = validatePreferenceKey(vcase.key)]
    /\ UNCHANGED <<table, now, deleted, written, pc, call, todo, txbuf, updatedKeys, res, probe, http>>

ValidateValue ==
    /\ vcase.valueErr = "none"
    /\ vcase' = [vcase EXCEPT !.valueErr = validatePreferenceValue(vcase.value)]
    /\ UNCHANGED <<table, now, deleted, written, pc, call, todo, txbuf, updatedKeys, res, probe, http>>

ValidateNext == ValidateKey \/ ValidateValue

SpecValidate == ValidateInit /\ [][ValidateNext]_vars

----------------------------------------------------------------------------
(* Properties.                                                             *)

\* The keys and values the specification calls invalid, in its own numbers
KeyRejectedBySpec(k) == GoLen(k) = 0 \/ TrimSpace(k) = EmptyString \/ GoLen(k) >= 256
ValueRejectedBySpec(v) == GoLen(v) >= 10001

ValidationCodes == {ErrorInvalidPreferenceKey, ErrorInvalidPreferenceValue}

Returned(p, op) == pc[p] = "done" /\ call[p].op = op

\* The rows of table t for (u, k) in the store's deployment
RowsOf(t, u, k) == {r \in t : r.user = u /\ r.dep = deploymentID /\ r.key = k}

\* Every pair of prefs is in table t for user u
AllVisible(t, u, prefs) ==
    \A k \in DOMAIN prefs : \E r \in RowsOf(t, u, k) : r.value = prefs[k]

\* This step is a step of an UpsertPreferences call of p: its start, a turn of
\* the closure's loop, or its return
UpsertStep(p) ==
    \/ pc[p] = "idle" /\ call'[p].op = "UpsertPreferences"
    \/ pc[p] = "tx" /\ (pc'[p] # "tx" \/ todo'[p] # todo[p])

\* C1: a step of an UpsertPreferences call either leaves the committed table,
\* which is all a reader's query sees, as it is, or is the call's successful
\* return and makes every pair of the batch visible in that one step: a reader
\* at any point sees none of the batch's writes or all of them.
C1_AtomicVisibility ==
    [][\A p \in Procs :
          UpsertStep(p) =>
             \/ table' = table
             \/ /\ pc'[p] = "done"
                /\ res'[p].err = Nil
                /\ AllVisible(table', call[p].userID, call[p].prefs)]_vars

\* C1 witness: a reader has returned the list it read while the other caller's
\* transaction held the first of its two writes, and that caller is between
\* its two writes.
C1_Witness ==
    \E p \in Procs : \E q \in Procs \ {p} :
        /\ pc[p] = "tx" /\ Len(txbuf[p]) = 1 /\ Cardinality(todo[p]) = 1
        /\ Returned(q, "GetPreferencesByUserID") /\ res[q].err = Nil /\ probe[q].midTx

\* C2: an UpsertPreferences call on a valid batch whose transaction failed (at
\* its start, at any store upsert, or at its commit) has returned
\* InternalServerError with a nil key list and none of its statements has
\* reached the committed table; a call whose transaction did not fail has
\* returned no error.
C2_Rollback ==
    \A p \in Procs :
        Returned(p, "UpsertPreferences") /\ ValidationErrors(call[p].prefs) = {} =>
            /\ probe[p].dbErr <=> res[p].err # Nil
            /\ probe[p].dbErr =>
                  /\ res[p] = Result(ErrorInternalServerError, NoPreference)
                  /\ probe[p].applied = 0

\* C2 witness: a call on two pairs has failed at its second store upsert, after
\* the first had succeeded.
C2_Witness ==
    \E p \in Procs :
        /\ Returned(p, "UpsertPreferences") /\ Cardinality(DOMAIN call[p].prefs) = 2
        /\ probe[p].dbErr /\ probe[p].storeCalls = 2
        /\ res[p].err = ErrorInternalServerError

\* C3: the step in which UpsertPreferences is called with a batch holding at
\* least one invalid pair is the whole call: it returns a validation error and
\* a nil key list, calls neither Transact nor the store, and leaves the table
\* as it is.
C3_ValidationAllOrNothing ==
    [][\A p \in Procs :
          ( /\ pc[p] = "idle"
            /\ call'[p].op = "UpsertPreferences"
            /\ \E k \in DOMAIN call'[p].prefs :
                  KeyRejectedBySpec(k) \/ ValueRejectedBySpec(call'[p].prefs[k]) )
          => /\ pc'[p] = "done"
             /\ res'[p].err \in ValidationCodes
             /\ res'[p].val = NoPreference
             /\ probe'[p].transacts = 0 /\ probe'[p].storeCalls = 0 /\ probe'[p].applied = 0
             /\ table' = table]_vars

\* C3 witness: a batch of one valid and one invalid pair has been rejected while
\* the table holds a preference of the user.
C3_Witness ==
    \E p \in Procs :
        /\ Returned(p, "UpsertPreferences") /\ res[p].err \in ValidationCodes
        /\ \E k \in DOMAIN call[p].prefs : PairError(k, call[p].prefs[k]) = Nil
        /\ \E k \in DOMAIN call[p].prefs : PairError(k, call[p].prefs[k]) # Nil
        /\ \E r \in table : r.user = call[p].userID /\ r.dep = deploymentID

\* C4 as claimed: for a key that is empty, all white space or of 256 bytes or
\* more, GetPreferenceByKey, DeletePreference and UpsertPreferences on a batch
\* containing it return InvalidKey and call no store operation.
C4_AsClaimed ==
    \A p \in Procs :
        /\ (Returned(p, "GetPreferenceByKey") \/ Returned(p, "DeletePreference"))
           /\ KeyRejectedBySpec(call[p].key)
           => res[p].err = ErrorInvalidPreferenceKey /\ probe[p].storeCalls = 0
        /\ Returned(p, "UpsertPreferences")
           /\ (\E k \in DOMAIN call[p].prefs : KeyRejectedBySpec(k))
           => /\ res[p].err = ErrorInvalidPreferenceKey
              /\ probe[p].storeCalls = 0 /\ probe[p].transacts = 0

\* C4: for such a key GetPreferenceByKey and DeletePreference return InvalidKey
\* and call no store operation; UpsertPreferences on a batch containing it
\* returns a validation error and calls neither Transact nor the store: the
\* error is InvalidKey unless another pair of the batch has a valid key and a
\* value of 10001 bytes or more, and then it is InvalidKey or InvalidValue.
C4_InvalidKeyRejected ==
    \A p \in Procs :
        /\ (Returned(p, "GetPreferenceByKey") \/ Returned(p, "DeletePreference"))
           /\ KeyRejectedBySpec(call[p].key)
           => res[p] = Result(ErrorInvalidPreferenceKey, NoPreference) /\ probe[p].storeCalls = 0
        /\ Returned(p, "UpsertPreferences")
           /\ (\E k \in DOMAIN call[p].prefs : KeyRejectedBySpec(k))
           => /\ res[p].err \in ValidationCodes
              /\ (\A j \in DOMAIN call[p].prefs :
                     KeyRejectedBySpec(j) \/ ~ValueRejectedBySpec(call[p].prefs[j]))
                 => res[p].err = ErrorInvalidPreferenceKey
              /\ probe[p].storeCalls = 0 /\ probe[p].transacts = 0

\* C4 witness: a batch with a white-space key and, under a valid key, an
\* over-long value has been rejected with InvalidValue.
C4_Witness ==
    \E p \in Procs :
        /\ Returned(p, "UpsertPreferences")
        /\ \E k \in DOMAIN call[p].prefs : k # EmptyString /\ TrimSpace(k) = EmptyString
        /\ res[p].err = ErrorInvalidPreferenceValue

\* C5 as claimed: UpsertPreferences on a batch containing a value of 10001
\* bytes or more returns InvalidValue and calls no store operation.
C5_AsClaimed ==
    \A p \in Procs :
        Returned(p, "UpsertPreferences")
        /\ (\E k \in DOMAIN call[p].prefs : ValueRejectedBySpec(call[p].prefs[k]))
        => /\ res[p].err = ErrorInvalidPreferenceValue
           /\ probe[p].storeCalls = 0 /\ probe[p].transacts = 0

\* C5: UpsertPreferences on a batch containing a value of 10001 bytes or more
\* returns a validation error and calls neither Transact nor the store; the
\* error is InvalidValue when every key of the batch is valid.  A batch of
\* valid keys whose values are of at most 10000 bytes, the empty value among
\* them, is not rejected by validation.
C5_InvalidValueRejected ==
    \A p \in Procs :
        /\ Returned(p, "UpsertPreferences")
           /\ (\E k \in DOMAIN call[p].prefs : ValueRejectedBySpec(call[p].prefs[k]))
           => /\ res[p].err \in ValidationCodes
              /\ (\A j \in DOMAIN call[p].prefs : ~KeyRejectedBySpec(j))
                 => res[p].err = ErrorInvalidPreferenceValue
              /\ probe[p].storeCalls = 0 /\ probe[p].transacts = 0
        /\ Returned(p, "UpsertPreferences")
           /\ (\A k \in DOMAIN call[p].prefs :
                  ~KeyRejectedBySpec(k) /\ ~ValueRejectedBySpec(call[p].prefs[k]))
           => res[p].err \notin ValidationCodes /\ probe[p].transacts = 1

\* C5 witness: a batch with an over-long value under a valid key has been
\* rejected with InvalidValue while the table holds an empty value that an
\* earlier batch wrote.
C5_Witness ==
    \E p \in Procs :
        /\ Returned(p, "UpsertPreferences") /\ res[p].err = ErrorInvalidPreferenceValue
        /\ \A k \in DOMAIN call[p].prefs : ~KeyRejectedBySpec(k)
        /\ \E r \in table : r.user = call[p].userID /\ r.dep = deploymentID
                            /\ r.value = EmptyString

\* Both validators have been applied to the pair
Validated == vcase.keyErr # "none" /\ vcase.valueErr # "none"

\* C6 as claimed: every key of 1 to 255 bytes and every value of 0 to 10000
\* bytes pass validation.
C6_AsClaimed ==
    Validated /\ GoLen(vcase.key) \in 1..255 /\ GoLen(vcase.value) \in 0..10000
    => vcase.keyErr = Nil /\ vcase.valueErr = Nil

\* C6: every key of 1 to 255 bytes that is not all white space and every value
\* of 0 to 10000 bytes pass validation.
C6_ValidationPasses ==
    Validated /\ GoLen(vcase.key) \in 1..255 /\ TrimSpace(vcase.key) # EmptyString
    /\ GoLen(vcase.value) \in 0..10000
    => vcase.keyErr = Nil /\ vcase.valueErr = Nil

\* C6 witness: a key of 255 bytes and a value of 10000 bytes have passed.
C6_Witness ==
    /\ Validated /\ GoLen(vcase.key) = 255 /\ GoLen(vcase.value) = 10000
    /\ vcase.keyErr = Nil /\ vcase.valueErr = Nil

\* C7: the table holds at most one row per (user, deployment, key).
C7_KeyUnique ==
    \A r1 \in table, r2 \in table :
        r1.user = r2.user /\ r1.dep = r2.dep /\ r1.key = r2.key => r1 = r2

\* C7 witness: both callers have upserted one key, with different values, with
\* success, and the key has its one row.
C7_Witness ==
    \E p \in Procs : \E q \in Procs \ {p} :
        /\ Returned(p, "UpsertPreferences") /\ res[p].err = Nil
        /\ Returned(q, "UpsertPreferences") /\ res[q].err = Nil
        /\ call[p].userID = call[q].userID
        /\ \E k \in DOMAIN call[p].prefs \cap DOMAIN call[q].prefs :
              /\ call[p].prefs[k] # call[q].prefs[k]
              /\ Cardinality(RowsOf(table, call[p].userID, k)) = 1

\* This step is the successful return of an UpsertPreferences call of p
UpsertCommitted(p) == pc[p] = "tx" /\ pc'[p] = "done" /\ res'[p].err = Nil

\* The upsert of key k by p's call overwrites a row that holds another value
Overwrites(p, k) ==
    /\ k \in DOMAIN call[p].prefs
    /\ RowsOf(table, call[p].userID, k) # {}
    /\ \A o \in RowsOf(table, call[p].userID, k) : o.value # call[p].prefs[k]

\* The time at which p's transaction executed its statement for key k
StatementTime(p, k) ==
    LET i == CHOOSE j \in 1..Len(txbuf[p]) : txbuf[p][j].key = k IN txbuf[p][i].ts

\* C8 as claimed: a successful upsert of a key that has a row with another
\* value leaves exactly one row for the key, with the new value, the created-at
\* of the first write and an updated-at that differs from the first write's.
C8_AsClaimed ==
    [][\A p \in Procs, k \in ValidKeys :
          UpsertCommitted(p) /\ Overwrites(p, k) =>
             /\ Cardinality(RowsOf(table', call[p].userID, k)) = 1
             /\ \A n \in RowsOf(table', call[p].userID, k), o \in RowsOf(table, call[p].userID, k) :
                   /\ n.value = call[p].prefs[k]
                   /\ n.created = o.created
                   /\ n.updated # o.updated]_vars

\* C8: such an upsert leaves exactly one row for the key, with the new value,
\* the created-at of the first write, and as updated-at the clock's reading
\* when the second write was executed: never earlier than the first write's,
\* and different from it exactly when the clock has advanced in between.
C8_SecondWriteOverwrites ==
    [][\A p \in Procs, k \in ValidKeys :
          UpsertCommitted(p) /\ Overwrites(p, k) =>
             /\ Cardinality(RowsOf(table', call[p].userID, k)) = 1
             /\ \A n \in RowsOf(table', call[p].userID, k), o \in RowsOf(table, call[p].userID, k) :
                   /\ n.value = call[p].prefs[k]
                   /\ n.created = o.created
                   /\ n.updated = StatementTime(p, k)
                   /\ n.updated >= o.updated]_vars

\* C8 witness: a key's row holds the value of the call that has just returned
\* and was updated after it was created.
C8_Witness ==
    \E p \in Procs :
        /\ Returned(p, "UpsertPreferences") /\ res[p].err = Nil
        /\ \E k \in DOMAIN call[p].prefs : \E r \in RowsOf(table, call[p].userID, k) :
              r.value = call[p].prefs[k] /\ r.created < r.updated

\* C9: GetPreferenceByKey with a valid key, once returned (one caller, so the
\* table is as it was read): NotFound with a nil preference exactly when the
\* query ran and matched no row, InternalServerError with a nil preference
\* exactly when the query failed, and otherwise no error and the stored row's
\* key and value.
C9_GetByKey ==
    \A p \in Procs :
        Returned(p, "GetPreferenceByKey") /\ ~KeyRejectedBySpec(call[p].key) =>
            LET rows == RowsOf(table, call[p].userID, call[p].key)
            IN  /\ res[p].err = ErrorPreferenceNotFound <=> ~probe[p].dbErr /\ rows = {}
                /\ res[p].err = ErrorInternalServerError <=> probe[p].dbErr
                /\ res[p].err = Nil <=> ~probe[p].dbErr /\ rows # {}
                /\ res[p].err # Nil => res[p].val = NoPreference
                /\ res[p].err = Nil =>
                      /\ ~res[p].val.isNil
                      /\ res[p].val.v.Key = call[p].key
                      /\ \E r \in rows : res[p].val.v.Value = r.value

\* C9 witness: a get of a stored key has returned its value.
C9_Witness ==
    \E p \in Procs :
        /\ Returned(p, "GetPreferenceByKey") /\ res[p].err = Nil
        /\ \E r \in RowsOf(table, call[p].userID, call[p].key) : res[p].val.v.Value = r.value

\* C10: a key whose latest committed write is a delete has no row; and a
\* DeletePreference whose statement the database executed has returned NotFound
\* if it found no row, in particular if the key's latest committed write was a
\* delete, and no error if it removed one.
C10_DeleteTwice ==
    /\ \A d \in deleted : RowsOf(table, d[1], d[2]) = {}
    /\ \A p \in Procs :
          Returned(p, "DeletePreference") /\ ~probe[p].dbErr =>
             /\ probe[p].matched = 0 => res[p].err = ErrorPreferenceNotFound
             /\ probe[p].matched >= 1 => res[p].err = Nil
             /\ probe[p].wasDeleted => res[p].err = ErrorPreferenceNotFound

\* C10 witness: one caller has deleted a key with success, and the other's
\* delete of the same key, run after it, has returned NotFound.
C10_Witness ==
    \E p \in Procs : \E q \in Procs \ {p} :
        /\ Returned(p, "DeletePreference") /\ res[p].err = Nil
        /\ Returned(q, "DeletePreference") /\ call[q].key = call[p].key
        /\ call[q].userID = call[p].userID
        /\ probe[q].wasDeleted /\ res[q].err = ErrorPreferenceNotFound

\* This step is a whole DeletePreference call of p
DeleteStep(p) == pc[p] = "idle" /\ pc'[p] = "done" /\ call'[p].op = "DeletePreference"

\* C11: a DeletePreference call that returns no error has removed exactly one
\* row, the row of its (user, key) in the store's deployment, and has left
\* every other row (other keys, other users, other deployments) as it was.
C11_DeleteFrame ==
    [][\A p \in Procs :
          DeleteStep(p) /\ res'[p].err = Nil =>
             /\ table' \subseteq table
             /\ table \ table' = RowsOf(table, call'[p].userID, call'[p].key)
             /\ Cardinality(table \ table') = 1]_vars

\* C11 witness: a delete has returned no error while the table holds the same
\* key for another user and for another deployment, and another key of the
\* caller's user.
C11_Witness ==
    \E p \in Procs :
        /\ Returned(p, "DeletePreference") /\ res[p].err = Nil
        /\ call[p].key = Repeat("a", 1)
        /\ ForeignRows \subseteq table
        /\ \E r \in table : r.user = call[p].userID /\ r.dep = deploymentID
                            /\ r.key # call[p].key

\* The rows of user u in the store's deployment
RowsOfUser(t, u) == {r \in t : r.user = u /\ r.dep = deploymentID}

\* C12: GetPreferencesByUserID, once returned (one caller, so the table is as
\* it was read), has returned a nil list exactly when it returned
\* InternalServerError, which it did exactly when the query failed; for a user
\* without rows it has returned no error and the empty, non-nil list.
C12_EmptyNotNull ==
    \A p \in Procs :
        Returned(p, "GetPreferencesByUserID") =>
            /\ res[p].val = NoPreference <=> res[p].err = ErrorInternalServerError
            /\ res[p].err = ErrorInternalServerError <=> probe[p].dbErr
            /\ ~probe[p].dbErr /\ RowsOfUser(table, call[p].userID) = {}
               => res[p] = Result(Nil, Some(<<>>))

\* C12 witness: the user's only preference has been deleted, other users' and
\* deployments' rows remain, and the list returned is empty and not nil.
C12_Witness ==
    \E p \in Procs :
        /\ Returned(p, "GetPreferencesByUserID") /\ res[p] = Result(Nil, Some(<<>>))
        /\ deleted # {} /\ ForeignRows \subseteq table

\* C13: the list GetPreferencesByUserID has returned without error (one caller,
\* so the table is as it was read) holds one entry per row of the user in the
\* store's deployment and no other, each with the row's key and value, in
\* strictly ascending order of the keys.
C13_ListExactAndOrdered ==
    \A p \in Procs :
        Returned(p, "GetPreferencesByUserID") /\ res[p].err = Nil =>
            LET list == res[p].val.v
                rows == RowsOfUser(table, call[p].userID)
            IN  /\ Len(list) = Cardinality(rows)
                /\ \A r \in rows : \E i \in 1..Len(list) :
                      list[i].Key = r.key /\ list[i].Value = r.value
                /\ \A i \in 1..Len(list) : \E r \in rows :
                      list[i].Key = r.key /\ list[i].Value = r.value
                /\ \A i \in 1..Len(list), j \in 1..Len(list) :
                      i < j => StrLess(list[i].Key, list[j].Key)

\* C13 witness: the list of two preferences has been returned, the one that
\* comes second in it written before the one that comes first.
C13_Witness ==
    \E p \in Procs :
        /\ Returned(p, "GetPreferencesByUserID") /\ res[p].err = Nil
        /\ Len(res[p].val.v) = 2
        /\ \E r1 \in RowsOfUser(table, call[p].userID) :
           \E r2 \in RowsOfUser(table, call[p].userID) :
              /\ r1.key = res[p].val.v[1].Key /\ r2.key = res[p].val.v[2].Key
              /\ r2.created < r1.created

\* The elements of sequence s
Range(s) == {s[i] : i \in 1..Len(s)}

\* C14: an UpsertPreferences call that has returned no error has returned a
\* non-nil list whose elements are the keys of its batch, each exactly once.
C14_ReturnedKeys ==
    \A p \in Procs :
        Returned(p, "UpsertPreferences") /\ res[p].err = Nil =>
            /\ ~res[p].val.isNil
            /\ Range(res[p].val.v) = DOMAIN call[p].prefs
            /\ Len(res[p].val.v) = Cardinality(DOMAIN call[p].prefs)

\* C14 witness: two calls on the same two keys have returned them in different
\* orders.
C14_Witness ==
    \E p \in Procs : \E q \in Procs \ {p} :
        /\ Returned(p, "UpsertPreferences") /\ res[p].err = Nil
        /\ Returned(q, "UpsertPreferences") /\ res[q].err = Nil
        /\ DOMAIN call[p].prefs = DOMAIN call[q].prefs
        /\ Len(res[p].val.v) = 2
        /\ res[p].val.v # res[q].val.v

\* This step is a whole GetPreferenceByKey, GetPreferencesByUserID call of p
GetStep(p) == pc[p] = "idle" /\ pc'[p] = "done" /\ call'[p].op = "GetPreferenceByKey"
ListStep(p) == pc[p] = "idle" /\ pc'[p] = "done" /\ call'[p].op = "GetPreferencesByUserID"

\* The keys' latest committed upserts for user u, none of them deleted since
WrittenFor(u) == {w \in written : w.user = u}

\* C15: a read whose query the database executed returns what the latest
\* successful upserts wrote: GetPreferenceByKey of a key written and not
\* deleted or overwritten since returns no error and that key with that value;
\* GetPreferencesByUserID returns no error and a list that holds every such key
\* with its value, the keys strictly ascending.
C15_RoundTrip ==
    [][\A p \in Procs :
          /\ GetStep(p) /\ ~probe'[p].dbErr =>
                \A w \in WrittenFor(call'[p].userID) :
                   w.key = call'[p].key =>
                      /\ res'[p].err = Nil /\ ~res'[p].val.isNil
                      /\ res'[p].val.v.Key = w.key /\ res'[p].val.v.Value = w.value
          /\ ListStep(p) /\ ~probe'[p].dbErr =>
                /\ res'[p].err = Nil /\ ~res'[p].val.isNil
                /\ \A w \in WrittenFor(call'[p].userID) :
                      \E i \in 1..Len(res'[p].val.v) :
                         res'[p].val.v[i].Key = w.key /\ res'[p].val.v[i].Value = w.value
                /\ \A i \in 1..Len(res'[p].val.v), j \in 1..Len(res'[p].val.v) :
                      i < j => StrLess(res'[p].val.v[i].Key, res'[p].val.v[j].Key)]_vars

\* C15 witness: one caller's batch of two keys with different values has been
\* committed and is the latest write of both keys, and the other caller has
\* been returned the list of the two, the shorter key first.
C15_Witness ==
    \E p \in Procs : \E q \in Procs \ {p} :
        /\ Returned(p, "UpsertPreferences") /\ res[p].err = Nil
        /\ DOMAIN call[p].prefs = ValidKeys
        /\ call[p].prefs[Repeat("a", 1)] # call[p].prefs[Repeat("a", maxPreferenceKeyLength)]
        /\ \A k \in ValidKeys :
              [user |-> call[p].userID, key |-> k, value |-> call[p].prefs[k]] \in written
        /\ Returned(q, "GetPreferencesByUserID") /\ res[q].err = Nil
        /\ call[q].userID = call[p].userID
        /\ Len(res[q].val.v) = 2
        /\ res[q].val.v[1].Key = Repeat("a", 1)
        /\ \A i \in 1..2 : res[q].val.v[i].Value = call[p].prefs[res[q].val.v[i].Key]

\* C16: the step in which an UpsertPreferences call commits leaves, for every
\* key of its batch, exactly one row, holding the value of that call, whatever
\* another caller committed before it; and the rows of a key change in no step
\* but the commit of a batch holding the key or a delete of the key: the value
\* stored is the value of the call that committed last.
C16_LastWriterWins ==
    [][/\ \A p \in Procs :
             UpsertCommitted(p) =>
                \A k \in DOMAIN call[p].prefs :
                   /\ Cardinality(RowsOf(table', call[p].userID, k)) = 1
                   /\ \A r \in RowsOf(table', call[p].userID, k) : r.value = call[p].prefs[k]
       /\ \A u \in Users, k \in ValidKeys :
             RowsOf(table', u, k) # RowsOf(table, u, k) =>
                \E p \in Procs :
                   \/ UpsertCommitted(p) /\ call[p].userID = u /\ k \in DOMAIN call[p].prefs
                   \/ DeleteStep(p) /\ call'[p].userID = u /\ call'[p].key = k]_vars

\* C16 witness: two calls have upserted one key with different values, both
\* with success; the first committed while the second's transaction held its
\* statement for the key, and the one row of the key holds the second's value.
C16_Witness ==
    \E p \in Procs : \E q \in Procs \ {p} :
        /\ Returned(p, "UpsertPreferences") /\ res[p].err = Nil /\ probe[p].midTx
        /\ Returned(q, "UpsertPreferences") /\ res[q].err = Nil /\ ~probe[q].midTx
        /\ call[p].userID = call[q].userID
        /\ \E k \in ValidKeys :
              /\ DOMAIN call[p].prefs = {k} /\ DOMAIN call[q].prefs = {k}
              /\ call[p].prefs[k] # call[q].prefs[k]
              /\ Cardinality(RowsOf(table, call[q].userID, k)) = 1
              /\ \A r \in RowsOf(table, call[q].userID, k) : r.value = call[q].prefs[k]

\* The service errors of the four operations
ServiceErrors ==
    {ErrorPreferenceNotFound, ErrorInvalidPreferenceKey, ErrorInvalidPreferenceValue,
     ErrorInternalServerError}

\* C17: a call that has returned has returned no error or exactly one of the
\* four service errors, and an error comes with no value; a call the database
\* or the transaction failed has returned InternalServerError and no other call
\* has; NotFound has been returned only by GetPreferenceByKey and
\* DeletePreference, when their statement ran and matched no row.
C17_ErrorTaxonomy ==
    \A p \in Procs :
        pc[p] = "done" =>
            /\ res[p].err \in {Nil} \cup ServiceErrors
            /\ res[p].err # Nil => res[p].val = NoPreference
            /\ res[p].err = ErrorInternalServerError <=> probe[p].dbErr
            /\ res[p].err = ErrorPreferenceNotFound =>
                  /\ call[p].op \in {"GetPreferenceByKey", "DeletePreference"}
                  /\ probe[p].matched = 0
            /\ call[p].op = "GetPreferencesByUserID" =>
                  res[p].err \in {Nil, ErrorInternalServerError}
            /\ res[p].err = ErrorInvalidPreferenceValue => call[p].op = "UpsertPreferences"

\* C17 witness: a DeletePreference whose statement the database failed has
\* returned InternalServerError.
C17_Witness ==
    \E p \in Procs :
        /\ Returned(p, "DeletePreference") /\ probe[p].dbErr /\ probe[p].storeCalls = 1
        /\ res[p] = Result(ErrorInternalServerError, NoPreference)
        /\ RowsOf(table, call[p].userID, call[p].key) # {}

\* C18: with one caller, the step in which a call returns an error leaves the
\* table as it is, no statement of the call has reached the table before it,
\* and no step inside the call's transaction changes the table: the stored rows
\* after a call that returned an error are the rows before the call.
C18_NoSideEffectsOnError ==
    [][\A p \in Procs :
          /\ pc[p] # "done" /\ pc'[p] = "done" /\ res'[p].err # Nil =>
                table' = table /\ probe'[p].applied = 0
          /\ pc[p] = "tx" /\ pc'[p] = "tx" => table' = table]_vars

\* C18 witness: an UpsertPreferences call has failed after both of its store
\* upserts were executed, and a key of its batch still holds another value.
C18_Witness ==
    \E p \in Procs :
        /\ Returned(p, "UpsertPreferences") /\ res[p].err = ErrorInternalServerError
        /\ probe[p].storeCalls = 2
        /\ \E k \in DOMAIN call[p].prefs : \E r \in RowsOf(table, call[p].userID, k) :
              r.value # call[p].prefs[k]

\* C19: a call of UpsertPreferences on a valid batch has made exactly one
\* Transact call, from its start to its return, and the three other
\* operations none; while the closure runs, every store upsert made so far is a
\* statement of that one transaction, for a key of the batch, and none has
\* reached the table; once the call has returned, its statements have reached
\* the table all together with the commit or not at all.
C19_SingleTransaction ==
    \A p \in Procs :
        /\ pc[p] \in {"tx", "done"} =>
              probe[p].transacts =
                 IF call[p].op = "UpsertPreferences" /\ ValidationErrors(call[p].prefs) = {}
                 THEN 1 ELSE 0
        /\ pc[p] = "tx" =>
              /\ Len(txbuf[p]) = probe[p].storeCalls
              /\ probe[p].applied = 0
              /\ \A i \in 1..Len(txbuf[p]) :
                    /\ txbuf[p][i].userID = call[p].userID
                    /\ txbuf[p][i].key \in DOMAIN call[p].prefs
                    /\ txbuf[p][i].value = call[p].prefs[txbuf[p][i].key]
        /\ Returned(p, "UpsertPreferences") =>
              probe[p].applied = IF res[p].err = Nil THEN probe[p].storeCalls ELSE 0
        /\ Returned(p, "UpsertPreferences") /\ res[p].err = Nil =>
              probe[p].storeCalls = Cardinality(DOMAIN call[p].prefs)

\* C19 witness: both callers are inside their closures, each with the two
\* statements of its batch in its own transaction.
C19_Witness ==
    \A p \in Procs :
        /\ pc[p] = "tx" /\ probe[p].transacts = 1
        /\ Len(txbuf[p]) = 2 /\ probe[p].storeCalls = 2

\* C20: within one call, GetPreferenceByKey, GetPreferencesByUserID and
\* DeletePreference have invoked their store operation at most once, and
\* UpsertPreferences the transactioner at most once and the store upsert once
\* for each key the closure's loop has visited, no key twice; a call that a
\* store or transaction failure ended has returned InternalServerError, its
\* failed store call being its last.
C20_NoRetry ==
    \A p \in Procs :
        /\ pc[p] \in {"tx", "done"} /\ call[p].op # "UpsertPreferences" =>
              probe[p].storeCalls <= 1 /\ probe[p].transacts = 0
        /\ pc[p] \in {"tx", "done"} /\ call[p].op = "UpsertPreferences" =>
              /\ probe[p].transacts <= 1
              /\ probe[p].storeCalls <= Cardinality(DOMAIN call[p].prefs)
        /\ pc[p] = "tx" =>
              /\ probe[p].storeCalls = Cardinality(DOMAIN call[p].prefs \ todo[p])
              /\ \A i \in 1..Len(txbuf[p]), j \in 1..Len(txbuf[p]) :
                    txbuf[p][i].key = txbuf[p][j].key => i = j
              /\ ~probe[p].dbErr
        /\ pc[p] = "done" /\ probe[p].dbErr =>
              res[p] = Result(ErrorInternalServerError, NoPreference)

\* C20 witness: the first store upsert of a batch of two has failed and the
\* call has returned InternalServerError, having made that one store call.
C20_Witness ==
    \E p \in Procs :
        /\ Returned(p, "UpsertPreferences") /\ Cardinality(DOMAIN call[p].prefs) = 2
        /\ probe[p].dbErr /\ probe[p].storeCalls = 1 /\ probe[p].transacts = 1
        /\ res[p].err = ErrorInternalServerError

----------------------------------------------------------------------------
(* The handlers.                                                           *)

\* The handler has answered the request without going to the service
AnsweredAtOnce ==
    /\ http.state = "responded"
    /\ ~http.service
    /\ pc[Handler] = "idle"
    /\ call[Handler] = NoCall
    /\ probe[Handler] = ZeroProbe

\* C21: each of the four handlers, in either variant, answers a request whose
\* user identifier is absent, empty or only white space with
\* AuthenticationFailed (401) and without calling the service; every call of
\* the service, and every request a handler passes on, carries a user
\* identifier that is not blank.
C21_AuthenticationFirst ==
    /\ http.state = "responded" /\ TrimSpace(http.userID) = EmptyString =>
          /\ AnsweredAtOnce
          /\ http.code = ErrorAuthenticationFailed
          /\ http.status = 401
    /\ http.state = "forwarded" => TrimSpace(http.userID) # EmptyString
    /\ call[Handler].op # "none" => TrimSpace(call[Handler].userID) # EmptyString

\* C21 witness: the upsert handler has answered a request whose user identifier
\* is two no-break spaces, and whose body is a good batch, with 401.
C21_Witness ==
    /\ http.state = "responded"
    /\ http.handler = "handleUpsertPreferences"
    /\ http.userID = Repeat("nbsp", 2)
    /\ http.body.decodes /\ DOMAIN http.body.preferences # {}
    /\ http.status = 401
    /\ AnsweredAtOnce

\* The service has returned to the handler, which has written its response
Answered == http.state = "responded" /\ http.service /\ pc[Handler] = "done"

\* C29: the status the handler writes after the service has returned is 404
\* for NotFound, 400 for InvalidKey and for InvalidValue, 500 for every other
\* service error (InternalServerError), and 200 when the service returned no
\* error; an AuthenticationFailed response has status 401; a 2xx status is
\* written only after a service call that returned no error.  Both variants
\* of the handler agree.
C29_StatusMapping ==
    /\ Answered =>
          LET svcErr == res[Handler].err
          IN  /\ svcErr \in ServiceErrors \cup {Nil}
              /\ svcErr = ErrorPreferenceNotFound => http.status = 404
              /\ svcErr \in {ErrorInvalidPreferenceKey, ErrorInvalidPreferenceValue} =>
                    http.status = 400
              /\ svcErr = ErrorInternalServerError => http.status = 500
              /\ svcErr = Nil => http.status = 200
    /\ http.state = "responded" /\ http.code = ErrorAuthenticationFailed => http.status = 401
    /\ http.state = "responded" /\ http.status \in 200..299 =>
          http.service /\ (pc[Handler] = "done" => res[Handler].err = Nil)

\* C29 witness: the first variant has answered 404 to a GetPreferenceByKey that
\* returned NotFound.
C29_Witness ==
    /\ Answered
    /\ http.variant = 1
    /\ http.handler = "handleGetPreferenceByKey"
    /\ res[Handler].err = ErrorPreferenceNotFound
    /\ http.status = 404

\* The request in the handler is one the handler cannot use: an upsert whose
\* body does not decode or holds no pair, a get or delete of a blank key
Unusable ==
    \/ /\ http.handler = "handleUpsertPreferences"
       /\ (~http.body.decodes \/ http.body.isNil \/ DOMAIN http.body.preferences = {})
    \/ /\ http.handler \in {"handleGetPreferenceByKey", "handleDeletePreference"}
       /\ TrimSpace(http.key) = EmptyString

\* The service is never called with an empty batch or a blank key
NeverCalledUnusable ==
    /\ call[Handler].op = "UpsertPreferences" => DOMAIN call[Handler].prefs # {}
    /\ call[Handler].op \in {"GetPreferenceByKey", "DeletePreference"} =>
          TrimSpace(call[Handler].key) # EmptyString

\* C30 as claimed: every such request is answered InvalidRequest (400).
C30_AsClaimed ==
    /\ http.state = "responded" /\ Unusable =>
          AnsweredAtOnce /\ http.status = 400
    /\ NeverCalledUnusable

\* C30: for a request with a non-blank user identifier, the upsert handler
\* answers a body that does not decode, or whose preferences map is missing or
\* empty, with InvalidRequest (400) and without calling the service, and the
\* get-one and delete handlers answer a blank path key the same way; such a
\* request with a blank user identifier is answered AuthenticationFailed (401)
\* instead, the user being checked first.  The service's UpsertPreferences is
\* called with a non-empty batch only, its GetPreferenceByKey and
\* DeletePreference with a non-blank key only.
C30_InvalidRequest ==
    /\ http.state = "responded" /\ Unusable =>
          /\ AnsweredAtOnce
          /\ IF TrimSpace(http.userID) # EmptyString
             THEN http.status = 400
                  /\ http.code = (IF http.variant = 1 THEN ErrorInvalidRequestAPI.Code
                                  ELSE ErrorInvalidRequest)
             ELSE http.status = 401 /\ http.code = ErrorAuthenticationFailed
    /\ NeverCalledUnusable

\* C30 witness: the upsert handler has answered 400 to a user's request whose
\* body decodes to an empty, non-nil map.
C30_Witness ==
    /\ http.state = "responded"
    /\ http.handler = "handleUpsertPreferences"
    /\ http.userID = Repeat("a", 1)
    /\ http.body.decodes /\ ~http.body.isNil /\ DOMAIN http.body.preferences = {}
    /\ http.status = 400
    /\ AnsweredAtOnce

----------------------------------------------------------------------------
(* Batches, lifecycle and scope.                                           *)

\* The orders in which the statements of the sequence s can be executed
Orders(s) ==
    {[i \in 1..Len(s) |-> s[f[i]]] :
        f \in {g \in [1..Len(s) -> 1..Len(s)] : \A i, j \in 1..Len(s) : g[i] = g[j] => i = j}}

\* What a reader can get of table t: the rows without their timestamps
Contents(t) == {[user |-> r.user, dep |-> r.dep, key |-> r.key, value |-> r.value] : r \in t}

\* The contents of table t with every pair of prefs written for user u
WithBatch(t, u, prefs) ==
    {x \in Contents(t) : ~(x.user = u /\ x.dep = deploymentID /\ x.key \in DOMAIN prefs)}
    \cup {[user |-> u, dep |-> deploymentID, key |-> k, value |-> prefs[k]] : k \in DOMAIN prefs}

\* C22: when an UpsertPreferences call returns no error, the table it leaves
\* is the table that executing its statements in any other order would have
\* left (the upserts of distinct keys commute, each with the clock reading it
\* was executed at), and the rows' users, keys and values are those of the
\* table before with the batch's pairs written over them, whatever the order
\* the map was iterated in.
C22_OrderIndependent ==
    [][\A p \in Procs :
          UpsertCommitted(p) =>
             /\ \A o \in Orders(txbuf[p]) : Commit(table, o) = table'
             /\ {txbuf[p][i].key : i \in 1..Len(txbuf[p])} = DOMAIN call[p].prefs
             /\ Contents(table') = WithBatch(table, call[p].userID, call[p].prefs)]_vars

\* C22 witness: a call has returned no error for a batch of two keys, one of
\* which had a row, after writing the greater key first and the other at a
\* later reading of the clock.
C22_Witness ==
    \E p \in Procs :
        /\ Returned(p, "UpsertPreferences") /\ res[p].err = Nil
        /\ Len(res[p].val.v) = 2
        /\ StrLess(res[p].val.v[2], res[p].val.v[1])
        /\ \E r1, r2 \in RowsOfUser(table, call[p].userID) :
              r1.updated # r2.updated /\ r1.created # r1.updated

\* The latest committed write of (u, k) was an upsert
LastWriteUpsert(u, k) == \E w \in written : w.user = u /\ w.key = k

\* C23: in every state (u, k) has a row exactly when the latest committed
\* write of the key was an upsert, and then one row, with the value of that
\* upsert; a row appears in no step but the commit of an UpsertPreferences
\* call whose batch holds the key, and disappears in no step but a
\* DeletePreference of that key that returns no error; the commit of a batch
\* holding a key whose latest write was a delete leaves the key's row with the
\* new value, and a GetPreferenceByKey the database executes returns the row's
\* value when there is a row and NotFound when there is none.
C23_Lifecycle ==
    /\ [](\A u \in Users, k \in ValidKeys :
             /\ RowsOf(table, u, k) # {} <=> LastWriteUpsert(u, k)
             /\ Cardinality(RowsOf(table, u, k)) <= 1
             /\ \A r \in RowsOf(table, u, k) :
                   [user |-> u, key |-> k, value |-> r.value] \in written
             /\ <<u, k>> \in deleted => RowsOf(table, u, k) = {})
    /\ [][/\ \A u \in Users, k \in ValidKeys :
                /\ RowsOf(table, u, k) = {} /\ RowsOf(table', u, k) # {} =>
                      \E p \in Procs :
                         UpsertCommitted(p) /\ call[p].userID = u /\ k \in DOMAIN call[p].prefs
                /\ RowsOf(table, u, k) # {} /\ RowsOf(table', u, k) = {} =>
                      \E p \in Procs :
                         /\ DeleteStep(p) /\ call'[p].userID = u /\ call'[p].key = k
                         /\ res'[p].err = Nil
          /\ \A p \in Procs :
                /\ UpsertCommitted(p) =>
                      \A k \in DOMAIN call[p].prefs :
                         /\ <<call[p].userID, k>> \notin deleted'
                         /\ \E r \in RowsOf(table', call[p].userID, k) :
                               r.value = call[p].prefs[k]
                /\ GetStep(p) /\ ~probe'[p].dbErr =>
                      IF RowsOf(table, call'[p].userID, call'[p].key) = {}
                      THEN res'[p].err = ErrorPreferenceNotFound
                      ELSE /\ res'[p].err = Nil
                           /\ \E r \in RowsOf(table, call'[p].userID, call'[p].key) :
                                 res'[p].val.v.Value = r.value]_vars

\* C23 witness: one caller's DeletePreference of a key has returned no error,
\* so the key had a row and lost it; the other caller's batch holding the key
\* with a value that is not empty has returned no error, and the key has a row
\* with that value, the batch having been committed after the delete.
C23_Witness ==
    \E p \in Procs : \E q \in Procs \ {p} :
        /\ Returned(q, "DeletePreference") /\ res[q].err = Nil /\ probe[q].matched = 1
        /\ Returned(p, "UpsertPreferences") /\ res[p].err = Nil
        /\ call[p].userID = call[q].userID
        /\ call[q].key \in DOMAIN call[p].prefs
        /\ call[p].prefs[call[q].key] # EmptyString
        /\ \E r \in RowsOf(table, call[q].userID, call[q].key) :
              r.value = call[p].prefs[call[q].key]
        /\ <<call[q].userID, call[q].key>> \notin deleted

\* The rows of table t that are not of user u in the store's deployment
OutOfScope(t, u) == {r \in t : r.user # u \/ r.dep # deploymentID}

----------------------------------------------------------------------------
(* Termination, cancellation and concurrent batches.                       *)

\* C25: GetPreferenceByKey, GetPreferencesByUserID and DeletePreference
\* return in the step of their one store call, and UpsertPreferences either
\* returns at once or enters its transaction; a call in its transaction
\* eventually returns, whatever another caller's transaction over the same
\* keys is doing; a call that has returned has returned no error or one of the
\* service errors.
C25_Terminates ==
    /\ [][\A p \in Procs :
             pc[p] = "idle" /\ pc'[p] # "idle" =>
                \/ pc'[p] = "done"
                \/ pc'[p] = "tx" /\ call'[p].op = "UpsertPreferences"]_vars
    /\ [](\A p \in Procs : pc[p] = "done" => res[p].err \in ServiceErrors \cup {Nil})
    /\ \A p \in Procs : (pc[p] = "tx") ~> (pc[p] = "done")

\* C25 witness: two calls over the same two keys have both returned no error,
\* having written the keys in opposite orders, one of them committing while
\* the other's transaction held statements.
C25_Witness ==
    \E p \in Procs : \E q \in Procs \ {p} :
        /\ Returned(p, "UpsertPreferences") /\ res[p].err = Nil
        /\ Returned(q, "UpsertPreferences") /\ res[q].err = Nil
        /\ DOMAIN call[p].prefs = ValidKeys /\ DOMAIN call[q].prefs = ValidKeys
        /\ res[p].val.v[1] = res[q].val.v[2]
        /\ res[p].val.v[2] = res[q].val.v[1]
        /\ probe[p].midTx

\* C26: once the caller of an UpsertPreferences call has cancelled its context
\* while the transaction is open, the call's next step, a store call on the
\* transaction's context or the commit, fails and ends the call without
\* changing the table; the call has then returned InternalServerError and no
\* value, and no statement of it has reached the table.
C26_Cancellation ==
    /\ [](\A p \in Procs :
             Returned(p, "UpsertPreferences") /\ probe[p].cancelled =>
                /\ res[p] = Result(ErrorInternalServerError, NoPreference)
                /\ probe[p].applied = 0
                /\ probe[p].dbErr)
    /\ [][\A p \in Procs :
             pc[p] = "tx" /\ probe[p].cancelled /\ (pc'[p] # pc[p] \/ todo'[p] # todo[p]) =>
                /\ pc'[p] = "done"
                /\ table' = table
                /\ txbuf'[p] = <<>>]_vars

\* C26 witness: a call for two pairs has made its first store call, its caller
\* has then cancelled, and its second store call or its commit has failed: it
\* has returned InternalServerError, and no row holds the value it was writing.
C26_Witness ==
    \E p \in Procs :
        /\ Returned(p, "UpsertPreferences") /\ probe[p].cancelled
        /\ probe[p].storeCalls = 2
        /\ res[p].err = ErrorInternalServerError
        /\ \A k \in DOMAIN call[p].prefs :
              /\ call[p].prefs[k] = Repeat("a", maxPreferenceValueLength)
              /\ \A r \in RowsOf(table, call[p].userID, k) : r.value # call[p].prefs[k]

\* Every key of p's batch has a row with the value of p's batch
HoldsBatchOf(t, p) ==
    \A k \in DOMAIN call[p].prefs :
        /\ RowsOf(t, call[p].userID, k) # {}
        /\ \A r \in RowsOf(t, call[p].userID, k) : r.value = call[p].prefs[k]

\* C27: when two UpsertPreferences calls for one user over the same two or
\* more keys have both returned no error, the rows of those keys all hold the
\* values of one of the two batches, never some of each; the batch is the one
\* committed last, the step in which a call commits leaving every key of its
\* batch with its value.
C27_NoMixture ==
    /\ [](\A p \in Procs : \A q \in Procs \ {p} :
             /\ Returned(p, "UpsertPreferences") /\ res[p].err = Nil
             /\ Returned(q, "UpsertPreferences") /\ res[q].err = Nil
             /\ call[p].userID = call[q].userID
             /\ DOMAIN call[p].prefs = DOMAIN call[q].prefs
             /\ Cardinality(DOMAIN call[p].prefs) >= 2
             => HoldsBatchOf(table, p) \/ HoldsBatchOf(table, q))
    /\ [][\A p \in Procs : UpsertCommitted(p) => HoldsBatchOf(table', p)]_vars

\* C27 witness: two calls over the same two keys, whose batches differ in the
\* value of both, have returned no error; the first committed while the
\* second's transaction held statements, and both keys hold the second's values.
C27_Witness ==
    \E p \in Procs : \E q \in Procs \ {p} :
        /\ Returned(p, "UpsertPreferences") /\ res[p].err = Nil
        /\ Returned(q, "UpsertPreferences") /\ res[q].err = Nil
        /\ DOMAIN call[p].prefs = ValidKeys /\ DOMAIN call[q].prefs = ValidKeys
        /\ \A k \in ValidKeys : call[p].prefs[k] # call[q].prefs[k]
        /\ probe[p].midTx /\ ~probe[q].midTx
        /\ HoldsBatchOf(table, q)

\* The error kind the specification gives the pair (k, v): the key's first
KindOf(k, v) ==
    IF KeyRejectedBySpec(k) THEN ErrorInvalidPreferenceKey
    ELSE IF ValueRejectedBySpec(v) THEN ErrorInvalidPreferenceValue
    ELSE Nil

\* The error kinds of the invalid pairs of a batch
Kinds(prefs) == {KindOf(k, prefs[k]) : k \in DOMAIN prefs} \ {Nil}

\* p and q have both been returned the result of UpsertPreferences for one batch
SameBatchReturned(p, q) ==
    /\ Returned(p, "UpsertPreferences") /\ Returned(q, "UpsertPreferences")
    /\ call[p].userID = call[q].userID
    /\ call[p].prefs = call[q].prefs

\* C28 as claimed: two calls with the same batch, in which one pair has an
\* invalid key and a different pair an over-long value, return the same error
\* kind.
C28_AsClaimed ==
    \A p \in Procs : \A q \in Procs \ {p} :
        /\ SameBatchReturned(p, q)
        /\ \E j \in DOMAIN call[p].prefs : \E k \in DOMAIN call[p].prefs \ {j} :
              KeyRejectedBySpec(j) /\ ValueRejectedBySpec(call[p].prefs[k])
        => res[p].err = res[q].err

\* C28: UpsertPreferences on a batch with an invalid pair returns the error
\* kind of one of the batch's invalid pairs, no value, and calls neither
\* Transact nor the store, and no such batch reaches the transaction; two
\* calls with the same batch return the same error kind when the batch's
\* invalid pairs are all of one kind; when one pair has an invalid key and a
\* different pair, with a valid key, an over-long value, each call returns
\* InvalidKey or InvalidValue, as the iteration of the map falls.
C28_ValidationResult ==
    /\ \A p \in Procs :
          /\ Returned(p, "UpsertPreferences") /\ Kinds(call[p].prefs) # {} =>
                /\ res[p].err \in Kinds(call[p].prefs)
                /\ res[p].val = NoPreference
                /\ probe[p] = ZeroProbe
          /\ Returned(p, "UpsertPreferences") /\ Kinds(call[p].prefs) = {} =>
                res[p].err \in {Nil, ErrorInternalServerError}
          /\ pc[p] = "tx" => Kinds(call[p].prefs) = {}
    /\ \A p \in Procs : \A q \in Procs \ {p} :
          SameBatchReturned(p, q) /\ Cardinality(Kinds(call[p].prefs)) = 1 =>
             res[p].err = res[q].err

\* C28 witness: two calls with the same batch, an empty key with a valid value
\* and a valid key with a value of 10001 bytes, have returned, one InvalidKey
\* and the other InvalidValue.
C28_Witness ==
    \E p \in Procs : \E q \in Procs \ {p} :
        /\ SameBatchReturned(p, q)
        /\ call[p].prefs = MixedBatch
        /\ res[p].err = ErrorInvalidPreferenceKey
        /\ res[q].err = ErrorInvalidPreferenceValue

====
